---- MODULE Spec2Model ----
(***************************************************************************)
(* The OAuth 2.0 authorization-code engine (utils/oauth_handler.py), the   *)
(* bearer authentication middleware (utils/auth.py) and the routing of the *)
(* Lambda entry point (lambda_handler.py).                                 *)
(*                                                                         *)
(* Conventions.  Python's None is the string None below; an Optional[str]  *)
(* is truthy when it is neither None nor "".  A dict is a function whose   *)
(* DOMAIN is its key set.  time.time() is the variable now (seconds); one  *)
(* handler runs at one instant.  secrets.token_urlsafe(32) never repeats a *)
(* value: the k-th call returns Tok(k).  A header value v is the pair      *)
(* <<v[:7], v[7:]>>, which is all that startswith('Bearer ') and v[7:]     *)
(* look at; an absent header is <<>>.                                      *)
(***************************************************************************)
EXTENDS Integers, Sequences, FiniteSets, TLC

VARIABLES
    auth_codes,         \* OAuthHandler.auth_codes
    access_tokens,      \* OAuthHandler.access_tokens
    refresh_tokens,     \* OAuthHandler.refresh_tokens
    access_token_ttl,   \* OAuthHandler.access_token_ttl (seconds)
    refresh_token_ttl,  \* OAuthHandler.refresh_token_ttl (seconds)
    valid_pats,         \* PATAuthenticator.valid_pats
    now,                \* time.time()
    generated,          \* number of _generate_token() calls made so far
    result,             \* the request being answered and its response
    requested,          \* history: the authorize query each code was minted for
    redeemed,           \* history: the codes of the successful exchanges, in order
    pc,                 \* per thread: position inside exchange_code_for_token
    frame,              \* per thread: arguments and return value of its call
    peer                \* the OAuthHandler of the process not serving now

vars == <<auth_codes, access_tokens, refresh_tokens, access_token_ttl,
          refresh_token_ttl, valid_pats, now, generated, result,
          requested, redeemed, pc, frame, peer>>

history == <<requested, redeemed>>

stores == <<auth_codes, access_tokens, refresh_tokens>>

config == <<access_token_ttl, refresh_token_ttl, valid_pats>>

(***************************************************************************)
(* Bounds of the model.                                                    *)
(***************************************************************************)
MaxTokens == 4

MaxCodes == 1

MaxRedemptions == 2

MaxRefreshed == 6

(***************************************************************************)
(* Program constants.                                                      *)
(***************************************************************************)
CodeTTL == 600

SecondsPerMinute == 60

DefaultAccessTTLMinutes == 60

DefaultRefreshTTLMinutes == 10080

PatTTL == 31536000

None == "<None>"

Truthy(v) == v # None /\ v # ""

EmptyDict == [k \in {} |-> None]

(***************************************************************************)
(* Inputs.                                                                 *)
(***************************************************************************)
ClientIds == {"demo", "other"}

PlainUri == "http://localhost/cb"

QueryUri == "http://localhost/cb?x=1"

ContainsQuestionMark(uri) == uri = QueryUri

AccessTTLMinutesEnv == {0, 1, DefaultAccessTTLMinutes}

DevPatEnv == {None, "dev-pat"}

Tok(k) == "tok" \o ToString(k)

Threads == {1, 2}

(***************************************************************************)
(* OAuthHandler                                                            *)
(***************************************************************************)
generate_token == Tok(generated + 1)

NoTokenResponse ==
    [access_token |-> None, token_type |-> None, expires_in |-> 0,
     refresh_token |-> None, scope |-> None]

handle_authorization_callback(code, client_id, redirect_uri) ==
    (code :> [scope |-> "all-apis",
              client_id |-> client_id,
              redirect_uri |-> redirect_uri,
              created_at |-> now,
              expires_at |-> now + CodeTTL,
              used |-> FALSE]) @@ auth_codes

\* exchange_validate with one slip: a check left out ("no_used",
\* "no_expiry", "no_client", "no_exists"), the expiry comparison made >=
\* ("ge"), or the redirect URI compared even when none was supplied
\* ("strict_redirect").
exchange_validate_slip(code, client_id, redirect_uri, slip) ==
    IF code \notin DOMAIN auth_codes
    THEN IF slip # "no_exists" THEN "Invalid authorization code"
         ELSE IF now > 0 THEN "Authorization code expired"
         ELSE "Client ID mismatch"
    ELSE IF slip # "no_used" /\ auth_codes[code].used
    THEN "Authorization code already used"
    ELSE IF /\ slip # "no_expiry"
            /\ \/ now > auth_codes[code].expires_at
               \/ slip = "ge" /\ now = auth_codes[code].expires_at
    THEN "Authorization code expired"
    ELSE IF slip # "no_client" /\ auth_codes[code].client_id # client_id
    THEN "Client ID mismatch"
    ELSE IF /\ Truthy(redirect_uri) \/ slip = "strict_redirect"
            /\ auth_codes[code].redirect_uri # redirect_uri
    THEN "Redirect URI mismatch"
    ELSE None

exchange_validate_no_used(code, client_id, redirect_uri) ==
    exchange_validate_slip(code, client_id, redirect_uri, "no_used")

exchange_validate_no_expiry(code, client_id, redirect_uri) ==
    exchange_validate_slip(code, client_id, redirect_uri, "no_expiry")

exchange_validate_ge(code, client_id, redirect_uri) ==
    exchange_validate_slip(code, client_id, redirect_uri, "ge")

exchange_validate_no_client(code, client_id, redirect_uri) ==
    exchange_validate_slip(code, client_id, redirect_uri, "no_client")

exchange_validate_strict_redirect(code, client_id, redirect_uri) ==
    exchange_validate_slip(code, client_id, redirect_uri, "strict_redirect")

exchange_validate_no_exists(code, client_id, redirect_uri) ==
    exchange_validate_slip(code, client_id, redirect_uri, "no_exists")

\* exchange_validate with the expiry check made before the used check.
exchange_validate_expiry_first(code, client_id, redirect_uri) ==
    IF code \notin DOMAIN auth_codes THEN "Invalid authorization code"
    ELSE IF now > auth_codes[code].expires_at THEN "Authorization code expired"
    ELSE IF auth_codes[code].used THEN "Authorization code already used"
    ELSE IF auth_codes[code].client_id # client_id THEN "Client ID mismatch"
    ELSE IF Truthy(redirect_uri) /\ auth_codes[code].redirect_uri # redirect_uri
         THEN "Redirect URI mismatch"
    ELSE None

\* The validations of exchange_code_for_token, in the order of the code:
\* the error message of the first one that fails, None when all pass.
exchange_validate(code, client_id, redirect_uri) ==
    IF code \notin DOMAIN auth_codes THEN "Invalid authorization code"
    ELSE IF auth_codes[code].used THEN "Authorization code already used"
    ELSE IF now > auth_codes[code].expires_at THEN "Authorization code expired"
    ELSE IF auth_codes[code].client_id # client_id THEN "Client ID mismatch"
    ELSE IF Truthy(redirect_uri) /\ auth_codes[code].redirect_uri # redirect_uri
         THEN "Redirect URI mismatch"
    ELSE None

\* exchange_token_data with the refresh TTL taken for the access token.
exchange_token_data_wrong_ttl(code, client_id) ==
    [scope |-> auth_codes[code].scope,
     client_id |-> client_id,
     created_at |-> now,
     expires_at |-> now + refresh_token_ttl,
     user_id |-> "authenticated_user"]

exchange_token_data(code, client_id) ==
    [scope |-> auth_codes[code].scope,
     client_id |-> client_id,
     created_at |-> now,
     expires_at |-> now + access_token_ttl,
     user_id |-> "authenticated_user"]

\* exchange_issue without the statement that gives the refresh record its
\* own expiry: both records expire together.
exchange_issue_same_ttl(code, client_id) ==
    LET access_token == Tok(generated + 1)
        refresh_token == Tok(generated + 2)
        token_data == exchange_token_data(code, client_id)
    IN  [ok |-> TRUE,
         error |-> None,
         token_response |->
             [access_token |-> access_token,
              token_type |-> "Bearer",
              expires_in |-> access_token_ttl,
              refresh_token |-> refresh_token,
              scope |-> token_data.scope],
         auth_codes |-> [auth_codes EXCEPT ![code].used = TRUE],
         access_tokens |-> (access_token :> token_data) @@ access_tokens,
         refresh_tokens |-> (refresh_token :> token_data) @@ refresh_tokens,
         generated |-> generated + 2]

\* exchange_issue deleting the code it redeems instead of marking it used.
exchange_issue_evicting(code, client_id) ==
    LET access_token == Tok(generated + 1)
        refresh_token == Tok(generated + 2)
        token_data == exchange_token_data(code, client_id)
    IN  [ok |-> TRUE,
         error |-> None,
         token_response |->
             [access_token |-> access_token,
              token_type |-> "Bearer",
              expires_in |-> access_token_ttl,
              refresh_token |-> refresh_token,
              scope |-> token_data.scope],
         auth_codes |-> [k \in DOMAIN auth_codes \ {code} |-> auth_codes[k]],
         access_tokens |-> (access_token :> token_data) @@ access_tokens,
         refresh_tokens |->
             (refresh_token :>
                 [token_data EXCEPT !.expires_at = now + refresh_token_ttl])
             @@ refresh_tokens,
         generated |-> generated + 2]

\* exchange_issue without the statement that marks the code used.
exchange_issue_unmarked(code, client_id) ==
    LET access_token == Tok(generated + 1)
        refresh_token == Tok(generated + 2)
        token_data == exchange_token_data(code, client_id)
    IN  [ok |-> TRUE,
         error |-> None,
         token_response |->
             [access_token |-> access_token,
              token_type |-> "Bearer",
              expires_in |-> access_token_ttl,
              refresh_token |-> refresh_token,
              scope |-> token_data.scope],
         auth_codes |-> auth_codes,
         access_tokens |-> (access_token :> token_data) @@ access_tokens,
         refresh_tokens |->
             (refresh_token :>
                 [token_data EXCEPT !.expires_at = now + refresh_token_ttl])
             @@ refresh_tokens,
         generated |-> generated + 2]

\* The rest of exchange_code_for_token, run once the validations passed:
\* mark the code used, mint and store the two tokens, build the response.
exchange_issue(code, client_id) ==
    LET access_token == Tok(generated + 1)
        refresh_token == Tok(generated + 2)
        token_data == exchange_token_data(code, client_id)
    IN  [ok |-> TRUE,
         error |-> None,
         token_response |->
             [access_token |-> access_token,
              token_type |-> "Bearer",
              expires_in |-> access_token_ttl,
              refresh_token |-> refresh_token,
              scope |-> token_data.scope],
         auth_codes |-> [auth_codes EXCEPT ![code].used = TRUE],
         access_tokens |-> (access_token :> token_data) @@ access_tokens,
         refresh_tokens |->
             (refresh_token :>
                 [token_data EXCEPT !.expires_at = now + refresh_token_ttl])
             @@ refresh_tokens,
         generated |-> generated + 2]

Failure(error) ==
    [auth_codes |-> auth_codes,
     access_tokens |-> access_tokens,
     refresh_tokens |-> refresh_tokens,
     generated |-> generated,
     ok |-> FALSE,
     error |-> error,
     token_response |-> NoTokenResponse]

\* exchange_code_for_token marking the code used before the client and
\* redirect checks: an attempt that fails them burns the code.
exchange_code_for_token_burning(code, client_id, redirect_uri, code_verifier) ==
    LET error == exchange_validate(code, client_id, redirect_uri)
    IN  IF error \in {"Client ID mismatch", "Redirect URI mismatch"}
        THEN [Failure(error) EXCEPT
                  !.auth_codes = [auth_codes EXCEPT ![code].used = TRUE]]
        ELSE IF error # None THEN Failure(error)
        ELSE exchange_issue(code, client_id)

exchange_code_for_token(code, client_id, redirect_uri, code_verifier) ==
    LET error == exchange_validate(code, client_id, redirect_uri)
    IN  IF error # None THEN Failure(error) ELSE exchange_issue(code, client_id)

\* refresh_validate without the client check.
refresh_validate_no_client(refresh_token, client_id) ==
    IF refresh_token \notin DOMAIN refresh_tokens THEN "Invalid refresh token"
    ELSE IF now > refresh_tokens[refresh_token].expires_at THEN "Refresh token expired"
    ELSE None

\* refresh_validate without the expiry check.
refresh_validate_no_expiry(refresh_token, client_id) ==
    IF refresh_token \notin DOMAIN refresh_tokens THEN "Invalid refresh token"
    ELSE IF refresh_tokens[refresh_token].client_id # client_id THEN "Client ID mismatch"
    ELSE None

refresh_validate(refresh_token, client_id) ==
    IF refresh_token \notin DOMAIN refresh_tokens THEN "Invalid refresh token"
    ELSE IF now > refresh_tokens[refresh_token].expires_at THEN "Refresh token expired"
    ELSE IF refresh_tokens[refresh_token].client_id # client_id THEN "Client ID mismatch"
    ELSE None

\* refresh_access_token with one slip: expires_in reported as the default
\* 3600 whatever the configured TTL ("default_expires_in"), the new
\* record's expiry counted from the refresh token's creation
\* ("from_issue_time"), or the refresh token's own expiry pushed back by
\* every refresh ("sliding"), or the earlier access tokens given the new
\* token's expiry ("renewing").
refresh_access_token_slip(refresh_token, client_id, slip) ==
    LET error == refresh_validate(refresh_token, client_id)
        new_access_token == Tok(generated + 1)
        start == IF slip = "from_issue_time"
                 THEN refresh_tokens[refresh_token].created_at ELSE now
        token_data ==
            [scope |-> refresh_tokens[refresh_token].scope,
             client_id |-> client_id,
             created_at |-> now,
             expires_at |-> start + access_token_ttl,
             user_id |-> refresh_tokens[refresh_token].user_id]
    IN  IF error # None THEN Failure(error)
        ELSE [auth_codes |-> auth_codes,
              access_tokens |->
                  (new_access_token :> token_data)
                  @@ IF slip = "renewing"
                     THEN [t \in DOMAIN access_tokens |->
                              [access_tokens[t] EXCEPT
                                   !.expires_at = token_data.expires_at]]
                     ELSE access_tokens,
              refresh_tokens |->
                  IF slip = "sliding"
                  THEN [refresh_tokens EXCEPT
                            ![refresh_token].expires_at = now + refresh_token_ttl]
                  ELSE refresh_tokens,
              generated |-> generated + 1,
              ok |-> TRUE,
              error |-> None,
              token_response |->
                  [access_token |-> new_access_token,
                   token_type |-> "Bearer",
                   expires_in |-> IF slip = "default_expires_in"
                                  THEN DefaultAccessTTLMinutes * SecondsPerMinute
                                  ELSE access_token_ttl,
                   refresh_token |-> refresh_token,
                   scope |-> token_data.scope]]

refresh_access_token_default_expires_in(refresh_token, client_id) ==
    refresh_access_token_slip(refresh_token, client_id, "default_expires_in")

refresh_access_token_from_issue_time(refresh_token, client_id) ==
    refresh_access_token_slip(refresh_token, client_id, "from_issue_time")

refresh_access_token_sliding(refresh_token, client_id) ==
    refresh_access_token_slip(refresh_token, client_id, "sliding")

refresh_access_token_renewing(refresh_token, client_id) ==
    refresh_access_token_slip(refresh_token, client_id, "renewing")

refresh_access_token(refresh_token, client_id) ==
    LET error == refresh_validate(refresh_token, client_id)
        new_access_token == Tok(generated + 1)
        token_data ==
            [scope |-> refresh_tokens[refresh_token].scope,
             client_id |-> client_id,
             created_at |-> now,
             expires_at |-> now + access_token_ttl,
             user_id |-> refresh_tokens[refresh_token].user_id]
    IN  IF error # None THEN Failure(error)
        ELSE [auth_codes |-> auth_codes,
              access_tokens |-> (new_access_token :> token_data) @@ access_tokens,
              refresh_tokens |-> refresh_tokens,
              generated |-> generated + 1,
              ok |-> TRUE,
              error |-> None,
              token_response |->
                  [access_token |-> new_access_token,
                   token_type |-> "Bearer",
                   expires_in |-> access_token_ttl,
                   refresh_token |-> refresh_token,
                   scope |-> token_data.scope]]

\* validate_token looking the token up in the refresh-token store as well.
validate_token_any_store(access_token) ==
    \/ /\ access_token \in DOMAIN access_tokens
       /\ ~(now > access_tokens[access_token].expires_at)
    \/ /\ access_token \in DOMAIN refresh_tokens
       /\ ~(now > refresh_tokens[access_token].expires_at)

\* validate_token returns (is_valid, token_data); this is is_valid.
validate_token(access_token) ==
    /\ access_token \in DOMAIN access_tokens
    /\ ~(now > access_tokens[access_token].expires_at)

(***************************************************************************)
(* PATAuthenticator and AuthMiddleware                                     *)
(***************************************************************************)
\* load_pats falling back to a built-in development token.
load_pats_builtin(dev_pat) ==
    (IF Truthy(dev_pat) THEN dev_pat ELSE "dev-pat")
        :> [created_at |-> 0,
            expires_at |-> PatTTL,
            user_id |-> "dev_user",
            scopes |-> <<"all-apis">>]

load_pats(dev_pat) ==
    IF Truthy(dev_pat)
    THEN dev_pat :> [created_at |-> 0,
                     expires_at |-> PatTTL,
                     user_id |-> "dev_user",
                     scopes |-> <<"all-apis">>]
    ELSE EmptyDict

\* validate_pat returns (is_valid, token_info); this is is_valid.
validate_pat(pat_token) ==
    /\ Truthy(pat_token)
    /\ pat_token \in DOMAIN valid_pats
    /\ ~(now > valid_pats[pat_token].expires_at)

NoHeader == <<>>

HeaderValue(first7, rest) == <<first7, rest>>

HeaderTruthy(v) == v # NoHeader /\ v # HeaderValue("", "")

HeaderGet(headers, key) == IF key \in DOMAIN headers THEN headers[key] ELSE NoHeader

NoUserInfo == [user_id |-> None]

\* authenticate_request with one slip: the prefix compared without regard
\* to case ("any_case_prefix"), or the static-token authenticator never
\* tried ("no_pat").
authenticate_request_slip(headers, slip) ==
    LET lower == HeaderGet(headers, "authorization")
        auth_header == IF HeaderTruthy(lower) THEN lower
                       ELSE HeaderGet(headers, "Authorization")
        token == auth_header[2]
    IN  IF ~HeaderTruthy(auth_header)
        THEN [is_authenticated |-> FALSE, user_info |-> NoUserInfo,
              error_message |-> "Missing Authorization header"]
        ELSE IF /\ auth_header[1] # "Bearer "
                /\ ~(slip = "any_case_prefix" /\ auth_header[1] = "bearer ")
        THEN [is_authenticated |-> FALSE, user_info |-> NoUserInfo,
              error_message |->
                  "Invalid Authorization header format. Expected 'Bearer <token>'"]
        ELSE IF validate_token(token)
        THEN [is_authenticated |-> TRUE, user_info |-> access_tokens[token],
              error_message |-> None]
        ELSE IF slip # "no_pat" /\ validate_pat(token)
        THEN [is_authenticated |-> TRUE, user_info |-> valid_pats[token],
              error_message |-> None]
        ELSE [is_authenticated |-> FALSE, user_info |-> NoUserInfo,
              error_message |-> "Invalid or expired token"]

authenticate_request_any_case_prefix(headers) ==
    authenticate_request_slip(headers, "any_case_prefix")

authenticate_request_no_pat(headers) ==
    authenticate_request_slip(headers, "no_pat")

\* utils.oauth_handler imports, so _oauth_handler is the global handler
\* and the branch of the local OAuthTokenManager is never taken.
authenticate_request(headers) ==
    LET lower == HeaderGet(headers, "authorization")
        auth_header == IF HeaderTruthy(lower) THEN lower
                       ELSE HeaderGet(headers, "Authorization")
        token == auth_header[2]
    IN  IF ~HeaderTruthy(auth_header)
        THEN [is_authenticated |-> FALSE, user_info |-> NoUserInfo,
              error_message |-> "Missing Authorization header"]
        ELSE IF auth_header[1] # "Bearer "
        THEN [is_authenticated |-> FALSE, user_info |-> NoUserInfo,
              error_message |->
                  "Invalid Authorization header format. Expected 'Bearer <token>'"]
        ELSE IF validate_token(token)
        THEN [is_authenticated |-> TRUE, user_info |-> access_tokens[token],
              error_message |-> None]
        ELSE IF validate_pat(token)
        THEN [is_authenticated |-> TRUE, user_info |-> valid_pats[token],
              error_message |-> None]
        ELSE [is_authenticated |-> FALSE, user_info |-> NoUserInfo,
              error_message |-> "Invalid or expired token"]

\* user_info.get('scopes', []) holds required_scope or 'all-apis'.
check_permissions(user_info, required_scope) ==
    LET scopes == IF "scopes" \in DOMAIN user_info THEN user_info.scopes
                  ELSE <<>>
    IN  \/ \E i \in DOMAIN scopes : scopes[i] = required_scope
        \/ \E i \in DOMAIN scopes : scopes[i] = "all-apis"

(***************************************************************************)
(* config.oauth_config: the client registry.                               *)
(***************************************************************************)
MCP_CLIENT_CONFIGS ==
    ("claude" :>
        [name |-> "claude-mcp-client",
         redirect_urls |-> <<"https://claude.ai/api/mcp/auth_callback">>,
         client_type |-> "public"])
    @@ ("cursor" :>
        [name |-> "cursor-mcp-client",
         redirect_urls |-> <<"http://localhost:*">>,
         client_type |-> "public"])
    @@ ("mcp_inspector" :>
        [name |-> "mcp-inspector-client",
         redirect_urls |-> <<"http://localhost:6274/oauth/callback",
                             "http://localhost:6274/oauth/callback/debug">>,
         client_type |-> "public"])

\* The client names presented to the registry, and str.lower on them.
RegistryClients == {"claude", "cursor", "Cursor", "mcp_inspector", "demo"}

Lower(name) == IF name = "Cursor" THEN "cursor" ELSE name

RegistryUris ==
    {"https://claude.ai/api/mcp/auth_callback",
     "https://claude.ai/api/mcp/auth_callback/x",
     "http://localhost:3000/callback",
     "http://localhost",
     "http://localhost:6274/oauth/callback",
     "http://localhost:6274/oauth/callback/debug",
     "https://evil.example/cb"}

\* The empty dict get_client_config returns for an unknown name.
NoConfig == [k \in {} |-> <<>>]

get_client_config(client_name) ==
    IF Lower(client_name) \in DOMAIN MCP_CLIENT_CONFIGS
    THEN MCP_CLIENT_CONFIGS[Lower(client_name)]
    ELSE NoConfig

\* ch in text
Contains(text, ch) == \E i \in 1..Len(text) : SubSeq(text, i, i) = ch

\* text.split(ch)[0], for a text that contains ch
BeforeFirst(text, ch) ==
    LET first == CHOOSE i \in 1..Len(text) :
                     /\ SubSeq(text, i, i) = ch
                     /\ \A j \in 1..(i - 1) : SubSeq(text, j, j) # ch
    IN  SubSeq(text, 1, first - 1)

\* text.startswith(prefix)
StartsWith(text, prefix) ==
    /\ Len(text) >= Len(prefix)
    /\ SubSeq(text, 1, Len(prefix)) = prefix

\* validate_redirect_uri without the wildcard loop.
validate_redirect_uri_exact_only(redirect_uri, client_name) ==
    LET client_config == get_client_config(client_name)
    IN  IF client_config = NoConfig THEN FALSE
        ELSE \E i \in DOMAIN client_config.redirect_urls :
                 client_config.redirect_urls[i] = redirect_uri

validate_redirect_uri(redirect_uri, client_name) ==
    LET client_config == get_client_config(client_name)
        allowed_urls == client_config.redirect_urls
    IN  IF client_config = NoConfig THEN FALSE
        ELSE IF \E i \in DOMAIN allowed_urls : allowed_urls[i] = redirect_uri
        THEN TRUE
        ELSE \E i \in DOMAIN allowed_urls :
                 /\ Contains(allowed_urls[i], "*")
                 /\ StartsWith(redirect_uri, BeforeFirst(allowed_urls[i], "*"))

(***************************************************************************)
(* lambda_handler and the endpoint handlers.  A handler returns an outcome:*)
(* the HTTP response, the stores and token counter it leaves, the engine   *)
(* call it made (call) and whether it handed the request to the            *)
(* dispatcher handle_mcp_request (dispatched).                             *)
(***************************************************************************)
Response(statusCode, error, message) ==
    [error |-> error,
     token_response |-> NoTokenResponse,
     statusCode |-> statusCode,
     message |-> message,
     www_authenticate |-> None,
     cache_control |-> None,
     pragma |-> None,
     location |-> None]

NoCall == [ok |-> FALSE, error |-> None, op |-> "none"]

\* An outcome that leaves the engine untouched.
Reply(response) ==
    [auth_codes |-> auth_codes,
     access_tokens |-> access_tokens,
     refresh_tokens |-> refresh_tokens,
     generated |-> generated,
     response |-> response,
     call |-> NoCall,
     dispatched |-> FALSE]

\* An outcome after the engine call r (a return value of the engine).
EngineReply(response, op, r) ==
    [auth_codes |-> r.auth_codes,
     access_tokens |-> r.access_tokens,
     refresh_tokens |-> r.refresh_tokens,
     generated |-> r.generated,
     response |-> response,
     call |-> [ok |-> r.ok, error |-> r.error, op |-> op],
     dispatched |-> FALSE]

\* event['headers'] is null: the gateway's event carries no header mapping.
\* None.get(...) raises AttributeError wherever the program reads a header.
NullHeaders == None :> NoHeader

\* An exception leaving a function: there is no response (statusCode 0).
Raise(exception) ==
    [Reply(Response(0, None, None)) EXCEPT
         !.call = [ok |-> FALSE, error |-> exception, op |-> "raise"]]

\* An except clause that lets the exception go on to the caller.
Except_reraise(outcome, error) == outcome

\* try: outcome / except Exception as e: 500 with the given error and str(e).
Except(outcome, error) ==
    IF outcome.call.op = "raise"
    THEN Reply(Response(500, error, outcome.call.error))
    ELSE outcome

DefaultCallback == "https://host/oauth/callback"

\* handle_oauth_authorize with one slip: the client_id check left out
\* ("no_client_check"), the state left out of the redirect ("no_state"), or
\* the redirect URI checked against the client registry first
\* ("registered_only").
handle_oauth_authorize_slip(event, slip) ==
    LET q == event.query
        redirect_uri == IF Truthy(q.redirect_uri) THEN q.redirect_uri
                        ELSE DefaultCallback
        auth_code == generate_token
        redirect_params == IF Truthy(q.state) /\ slip # "no_state"
                           THEN "code=" \o auth_code \o "&state=" \o q.state
                           ELSE "code=" \o auth_code
        separator == IF ContainsQuestionMark(redirect_uri) THEN "&" ELSE "?"
        stored == [auth_codes |->
                       handle_authorization_callback(auth_code, q.client_id,
                                                     redirect_uri),
                   access_tokens |-> access_tokens,
                   refresh_tokens |-> refresh_tokens,
                   generated |-> generated + 1,
                   ok |-> TRUE,
                   error |-> None]
    IN  Except(
          IF ~Truthy(q.client_id) /\ slip # "no_client_check"
          THEN Reply(Response(400, "invalid_request", "Missing client_id"))
          ELSE IF event.headers = NullHeaders
          THEN Raise("AttributeError")
          ELSE IF /\ slip = "registered_only"
                  /\ ~validate_redirect_uri(redirect_uri, q.client_id)
          THEN Reply(Response(400, "invalid_request", "Invalid redirect_uri"))
          ELSE EngineReply(
                   [Response(302, None, None) EXCEPT
                        !.location = redirect_uri \o separator \o redirect_params],
                   "callback", stored),
          "server_error")

handle_oauth_authorize_no_client_check(event) ==
    handle_oauth_authorize_slip(event, "no_client_check")

handle_oauth_authorize_no_state(event) ==
    handle_oauth_authorize_slip(event, "no_state")

handle_oauth_authorize_registered_only(event) ==
    handle_oauth_authorize_slip(event, "registered_only")

\* scope, code_challenge and code_challenge_method are read from the query
\* (lines 441-443) and not used again.  The host header is read at line 456
\* whatever the redirect_uri is.
handle_oauth_authorize(event) ==
    LET q == event.query
        redirect_uri == IF Truthy(q.redirect_uri) THEN q.redirect_uri
                        ELSE DefaultCallback
        auth_code == generate_token
        redirect_params == IF Truthy(q.state)
                           THEN "code=" \o auth_code \o "&state=" \o q.state
                           ELSE "code=" \o auth_code
        separator == IF ContainsQuestionMark(redirect_uri) THEN "&" ELSE "?"
        stored == [auth_codes |->
                       handle_authorization_callback(auth_code, q.client_id,
                                                     redirect_uri),
                   access_tokens |-> access_tokens,
                   refresh_tokens |-> refresh_tokens,
                   generated |-> generated + 1,
                   ok |-> TRUE,
                   error |-> None]
    IN  Except(
          IF ~Truthy(q.client_id)
          THEN Reply(Response(400, "invalid_request", "Missing client_id"))
          ELSE IF event.headers = NullHeaders
          THEN Raise("AttributeError")
          ELSE EngineReply(
                   [Response(302, None, None) EXCEPT
                        !.location = redirect_uri \o separator \o redirect_params],
                   "callback", stored),
          "server_error")

\* TokenSuccess without the two cache headers.
TokenSuccess_cacheable(r) ==
    [Response(200, None, None) EXCEPT !.token_response = r.token_response]

TokenSuccess(r) ==
    [Response(200, None, None) EXCEPT
         !.cache_control = "no-store",
         !.pragma = "no-cache",
         !.token_response = r.token_response]

\* handle_oauth_token without the check that a code is present.
handle_oauth_token_code_optional(body, headers) ==
    LET p == body.params
        exchanged == exchange_code_for_token(p.code, p.client_id,
                                             p.redirect_uri, p.code_verifier)
        refreshed == refresh_access_token(p.refresh_token, p.client_id)
    IN  Except(
          IF body.kind = "empty"
          THEN Reply(Response(400, "invalid_request", "Missing request body"))
          ELSE IF headers = NullHeaders
          THEN Raise("AttributeError")
          ELSE IF body.kind = "invalid_json"
          THEN Reply(Response(400, "invalid_request", "Invalid JSON"))
          ELSE IF body.kind = "not_object"
          THEN Raise("AttributeError")
          ELSE IF ~Truthy(p.grant_type) \/ ~Truthy(p.client_id)
          THEN Reply(Response(400, "invalid_request",
                              "Missing grant_type or client_id"))
          ELSE IF p.grant_type = "authorization_code"
          THEN IF FALSE
               THEN Reply(Response(400, "invalid_request",
                                   "Missing authorization code"))
               ELSE IF ~exchanged.ok
               THEN EngineReply(Response(400, "invalid_grant", exchanged.error),
                                "exchange", exchanged)
               ELSE EngineReply(TokenSuccess(exchanged), "exchange", exchanged)
          ELSE IF p.grant_type = "refresh_token"
          THEN IF ~Truthy(p.refresh_token)
               THEN Reply(Response(400, "invalid_request", "Missing refresh_token"))
               ELSE IF ~refreshed.ok
               THEN EngineReply(Response(400, "invalid_grant", refreshed.error),
                                "refresh", refreshed)
               ELSE EngineReply(TokenSuccess(refreshed), "refresh", refreshed)
          ELSE Reply(Response(400, "unsupported_grant_type",
                              "Grant type is not supported")),
          "server_error")

handle_oauth_token(body, headers) ==
    LET p == body.params
        exchanged == exchange_code_for_token(p.code, p.client_id,
                                             p.redirect_uri, p.code_verifier)
        refreshed == refresh_access_token(p.refresh_token, p.client_id)
    IN  Except(
          IF body.kind = "empty"
          THEN Reply(Response(400, "invalid_request", "Missing request body"))
          ELSE IF headers = NullHeaders
          THEN Raise("AttributeError")
          ELSE IF body.kind = "invalid_json"
          THEN Reply(Response(400, "invalid_request", "Invalid JSON"))
          ELSE IF body.kind = "not_object"
          THEN Raise("AttributeError")
          ELSE IF ~Truthy(p.grant_type) \/ ~Truthy(p.client_id)
          THEN Reply(Response(400, "invalid_request",
                              "Missing grant_type or client_id"))
          ELSE IF p.grant_type = "authorization_code"
          THEN IF ~Truthy(p.code)
               THEN Reply(Response(400, "invalid_request",
                                   "Missing authorization code"))
               ELSE IF ~exchanged.ok
               THEN EngineReply(Response(400, "invalid_grant", exchanged.error),
                                "exchange", exchanged)
               ELSE EngineReply(TokenSuccess(exchanged), "exchange", exchanged)
          ELSE IF p.grant_type = "refresh_token"
          THEN IF ~Truthy(p.refresh_token)
               THEN Reply(Response(400, "invalid_request", "Missing refresh_token"))
               ELSE IF ~refreshed.ok
               THEN EngineReply(Response(400, "invalid_grant", refreshed.error),
                                "refresh", refreshed)
               ELSE EngineReply(TokenSuccess(refreshed), "refresh", refreshed)
          ELSE Reply(Response(400, "unsupported_grant_type",
                              "Grant type is not supported")),
          "server_error")

\* The dispatcher: an external collaborator, seen only through its status.
handle_mcp_request(body) ==
    IF body.kind = "empty"
    THEN Response(400, "Bad Request", "Empty request body")
    ELSE IF body.kind = "invalid_json"
    THEN Response(400, "Bad Request", "Invalid JSON")
    ELSE IF body.kind = "not_object"
    THEN Response(400, "Bad Request", "Invalid MCP request format")
    ELSE Response(200, None, None)

\* handle_mcp without the early return on a failed authentication.
handle_mcp_unchecked(event) ==
    LET auth == authenticate_request(event.headers)
    IN  [Reply(handle_mcp_request(event.body)) EXCEPT
             !.call = [ok |-> auth.is_authenticated, error |-> auth.error_message,
                       op |-> "authenticate"],
             !.dispatched = TRUE]

\* handle_mcp with an authentication that consumes the access token it
\* accepted.
handle_mcp_consuming(event) ==
    LET auth == authenticate_request(event.headers)
        call == [ok |-> auth.is_authenticated, error |-> auth.error_message,
                 op |-> "authenticate"]
        kept == DOMAIN access_tokens \ {event.headers[k][2] : k \in DOMAIN event.headers}
    IN  IF ~auth.is_authenticated
        THEN [Reply([Response(401, "Unauthorized", auth.error_message) EXCEPT
                         !.www_authenticate = "Bearer realm=\"Databricks MCP Server\""])
              EXCEPT !.call = call]
        ELSE [Reply(handle_mcp_request(event.body)) EXCEPT
                  !.call = call, !.dispatched = TRUE,
                  !.access_tokens = [t \in kept |-> access_tokens[t]]]

handle_mcp(event) ==
    LET auth == authenticate_request(event.headers)
        call == [ok |-> auth.is_authenticated, error |-> auth.error_message,
                 op |-> "authenticate"]
    IN  IF event.headers = NullHeaders
        THEN Raise("AttributeError")
        ELSE IF ~auth.is_authenticated
        THEN [Reply([Response(401, "Unauthorized", auth.error_message) EXCEPT
                         !.www_authenticate = "Bearer realm=\"Databricks MCP Server\""])
              EXCEPT !.call = call]
        ELSE [Reply(handle_mcp_request(event.body)) EXCEPT
                  !.call = call, !.dispatched = TRUE]

handle_oauth_callback(event) ==
    IF Truthy(event.query.code)
    THEN Reply(Response(200, None, "Authorization successful"))
    ELSE Reply(Response(400, "invalid_request", "Missing authorization code"))

\* lambda_handler with the bearer check made on the token endpoint too.
lambda_handler_gated_token(event) ==
    Except(
      IF ~Truthy(event.method) \/ ~Truthy(event.path)
      THEN Reply(Response(400, "Bad Request", "Missing method or path"))
      ELSE IF event.path = "/health" /\ event.method = "GET"
      THEN Reply(Response(200, None, "healthy"))
      ELSE IF event.path = "/oauth/authorize" /\ event.method = "GET"
      THEN handle_oauth_authorize(event)
      ELSE IF event.path = "/oauth/callback" /\ event.method = "GET"
      THEN handle_oauth_callback(event)
      ELSE IF event.path = "/oauth/token" /\ event.method = "POST"
      THEN IF authenticate_request(event.headers).is_authenticated
           THEN handle_oauth_token(event.body, event.headers)
           ELSE Reply(Response(401, "Unauthorized", "Authentication required"))
      ELSE IF event.path = "/mcp" /\ event.method = "POST"
      THEN handle_mcp(event)
      ELSE IF event.method = "OPTIONS"
      THEN Reply(Response(200, None, None))
      ELSE Reply(Response(404, "Not Found", "No handler")),
      "Internal Server Error")

lambda_handler(event) ==
    Except(
      IF ~Truthy(event.method) \/ ~Truthy(event.path)
      THEN Reply(Response(400, "Bad Request", "Missing method or path"))
      ELSE IF event.path = "/health" /\ event.method = "GET"
      THEN Reply(Response(200, None, "healthy"))
      ELSE IF event.path = "/oauth/authorize" /\ event.method = "GET"
      THEN handle_oauth_authorize(event)
      ELSE IF event.path = "/oauth/callback" /\ event.method = "GET"
      THEN handle_oauth_callback(event)
      ELSE IF event.path = "/oauth/token" /\ event.method = "POST"
      THEN handle_oauth_token(event.body, event.headers)
      ELSE IF event.path = "/mcp" /\ event.method = "POST"
      THEN handle_mcp(event)
      ELSE IF event.method = "OPTIONS"
      THEN Reply(Response(200, None, None))
      ELSE Reply(Response(404, "Not Found", "No handler")),
      "Internal Server Error")

(***************************************************************************)
(* Requests.                                                               *)
(***************************************************************************)
NoQuery ==
    [scope |-> None, code |-> None, client_id |-> None, redirect_uri |-> None,
     state |-> None, code_challenge |-> None, code_challenge_method |-> None]

NoParams ==
    [refresh_token |-> None, code |-> None, client_id |-> None,
     redirect_uri |-> None, code_verifier |-> None, grant_type |-> None]

NoBody == [params |-> NoParams, kind |-> "empty"]

JsonRpcBody == [params |-> NoParams, kind |-> "params"]

NoHeaders == [k \in {} |-> NoHeader]

Event(method, path, headers, query, body) ==
    [headers |-> headers, query |-> query, body |-> body,
     method |-> method, path |-> path]

\* The PKCE challenge of a verifier under a method, as the client computes it.
Challenge(verifier, method) ==
    IF method = "S256" THEN "S256(" \o verifier \o ")" ELSE verifier

AuthorizeQueries ==
    {[NoQuery EXCEPT !.client_id = "demo", !.redirect_uri = PlainUri],
     [NoQuery EXCEPT !.client_id = "other",
                     !.code_challenge = Challenge("verifier", "plain"),
                     !.code_challenge_method = "plain"],
     [NoQuery EXCEPT !.client_id = "demo", !.redirect_uri = QueryUri,
                     !.state = "xyz", !.scope = "sql",
                     !.code_challenge = Challenge("verifier", "S256"),
                     !.code_challenge_method = "S256"],
     [NoQuery EXCEPT !.redirect_uri = PlainUri],
     [NoQuery EXCEPT !.client_id = ""]}

\* What a client can present as a code or token: every value minted so far
\* (codes, access tokens and refresh tokens alike) and a made-up one.
Minted == {Tok(k) : k \in 1..generated} \cup {"garbage"}

ExchangeParams ==
    {[NoParams EXCEPT !.grant_type = "authorization_code", !.client_id = c,
                      !.code = k, !.redirect_uri = r] :
        c \in ClientIds,
        k \in DOMAIN auth_codes \cup {"garbage"},
        r \in {PlainUri, QueryUri, None}}
    \cup {[NoParams EXCEPT !.grant_type = "authorization_code",
                           !.client_id = "demo", !.code = k] :
            k \in Minted}
    \cup {[NoParams EXCEPT !.grant_type = "authorization_code",
                           !.client_id = c, !.code = k, !.code_verifier = v] :
            c \in ClientIds, k \in DOMAIN auth_codes,
            v \in {"verifier", "other-verifier"}}

RefreshParams ==
    {[NoParams EXCEPT !.grant_type = "refresh_token", !.client_id = c,
                      !.refresh_token = t] :
        c \in ClientIds, t \in Minted}

OtherParams ==
    {[NoParams EXCEPT !.grant_type = g, !.client_id = c, !.code = Tok(1)] :
        g \in {None, "password"}, c \in {None, "demo"}}
    \cup {[NoParams EXCEPT !.grant_type = g, !.client_id = "demo"] :
            g \in {"authorization_code", "refresh_token"}}

TokenBodies ==
    {[params |-> p, kind |-> "params"] :
        p \in ExchangeParams \cup RefreshParams \cup OtherParams}
    \cup {NoBody, [params |-> NoParams, kind |-> "invalid_json"]}

AuthorizationValues ==
    {HeaderValue("Bearer ", t) : t \in Minted \cup {"dev-pat", ""}}
    \cup {HeaderValue("bearer ", t) : t \in {Tok(2), "dev-pat"}}
    \cup {HeaderValue("Basic d", "GVtbw=="), HeaderValue("", "")}

McpHeaders ==
    {NoHeaders}
    \cup {"authorization" :> v : v \in AuthorizationValues}
    \cup {k :> HeaderValue("Bearer ", t) :
            k \in {"Authorization", "AUTHORIZATION"}, t \in {Tok(2), "dev-pat"}}

OtherEvents ==
    {Event("GET", "/health", NoHeaders, NoQuery, NoBody),
     Event("GET", "/oauth/callback", NoHeaders, NoQuery, NoBody),
     Event("GET", "/oauth/callback", NoHeaders,
           [NoQuery EXCEPT !.code = Tok(1)], NoBody),
     Event("OPTIONS", "/mcp", NoHeaders, NoQuery, NoBody),
     Event("GET", "/mcp", NoHeaders, NoQuery, NoBody),
     Event("POST", "/oauth/authorize", NoHeaders, NoQuery, NoBody),
     Event("GET", "/nowhere", NoHeaders, NoQuery, NoBody),
     Event(None, "/mcp", NoHeaders, NoQuery, NoBody),
     Event("POST", None, NoHeaders, NoQuery, NoBody)}

NoEvent == Event(None, None, NoHeaders, NoQuery, NoBody)

NoFrame ==
    [code |-> None, client_id |-> None, redirect_uri |-> None,
     ok |-> FALSE, error |-> None, token_response |-> NoTokenResponse,
     returned |-> FALSE]

\* No request is being answered.
Idle ==
    [response |-> Response(0, None, None), call |-> NoCall, dispatched |-> FALSE,
     event |-> NoEvent, at |-> 0]

(***************************************************************************)
(* The state machine: one process serving one request at a time.           *)
(***************************************************************************)
\* OAuthHandler.__init__ in the other process: three empty dicts.
NoPeer ==
    [auth_codes |-> EmptyDict, access_tokens |-> EmptyDict,
     refresh_tokens |-> EmptyDict, serving |-> 1]

InitEnv(pats, minutes) ==
    /\ auth_codes = EmptyDict
    /\ access_tokens = EmptyDict
    /\ refresh_tokens = EmptyDict
    /\ access_token_ttl \in {m * SecondsPerMinute : m \in minutes}
    /\ refresh_token_ttl = DefaultRefreshTTLMinutes * SecondsPerMinute
    /\ valid_pats \in {load_pats(p) : p \in pats}
    /\ now = 0
    /\ generated = 0
    /\ result = Idle
    /\ requested = EmptyDict
    /\ redeemed = <<>>
    /\ pc = [t \in Threads |-> "idle"]
    /\ frame = [t \in Threads |-> NoFrame]
    /\ peer = NoPeer

\* DEV_PAT_TOKEN is not set, OAUTH_ACCESS_TOKEN_TTL_MINUTES is not set.
Init == InitEnv({None}, {DefaultAccessTTLMinutes})

\* DEV_PAT_TOKEN is set or not.
InitGateway == InitEnv(DevPatEnv, {DefaultAccessTTLMinutes})

\* lambda_handler(event, context) runs to completion; its return value is
\* result until the runtime has delivered it (Respond).
ServeWithin(event, tokens) ==
    LET out == lambda_handler(event)
    IN  /\ result = Idle
        /\ out.generated <= tokens
        /\ Cardinality(DOMAIN out.auth_codes) <= MaxCodes
        /\ auth_codes' = out.auth_codes
        /\ access_tokens' = out.access_tokens
        /\ refresh_tokens' = out.refresh_tokens
        /\ generated' = out.generated
        /\ result' = [response |-> out.response, call |-> out.call, dispatched |-> out.dispatched,
                      event |-> event, at |-> now]
        /\ requested' = IF out.call.op = "callback"
                        THEN (generate_token :> event.query) @@ requested
                        ELSE requested
        /\ redeemed' = IF out.call.op = "exchange" /\ out.call.ok
                       THEN Append(redeemed, event.body.params.code)
                       ELSE redeemed
        /\ UNCHANGED <<config, peer, now, pc, frame>>

Serve(event) == ServeWithin(event, MaxTokens)

Authorize ==
    \E q \in AuthorizeQueries :
        Serve(Event("GET", "/oauth/authorize", NoHeaders, q, NoBody))

Token ==
    \E b \in TokenBodies :
        Serve(Event("POST", "/oauth/token", NoHeaders, NoQuery, b))

Mcp ==
    \E h \in McpHeaders :
        Serve(Event("POST", "/mcp", h, NoQuery, JsonRpcBody))

Other == \E e \in OtherEvents : Serve(e)

Respond ==
    /\ result # Idle
    /\ result' = Idle
    /\ UNCHANGED <<stores, config, peer, now, generated, history, pc, frame>>

Expiries(store) == {store[k].expires_at : k \in DOMAIN store}

\* The instants at which the outcome of some expiry check changes: every
\* check of the program is now > expires_at, so between two of these
\* instants no request is answered differently.
Instants ==
    LET E == Expiries(auth_codes) \cup Expiries(access_tokens)
             \cup Expiries(refresh_tokens) \cup Expiries(valid_pats)
    IN  E \cup {e + 1 : e \in E}

\* Time passes between two requests.
Tick ==
    /\ result = Idle
    /\ \E t \in Instants : t > now /\ now' = t
    /\ UNCHANGED <<stores, config, peer, generated, result, history, pc, frame>>

Next == Tick \/ Authorize \/ Token \/ Respond

Spec == Init /\ [][Next]_vars

(***************************************************************************)
(* The gateway: every route of lambda_handler, POST /mcp behind the bearer *)
(* check, with the token endpoint used by one well-behaved client.         *)
(***************************************************************************)
DemoTokenBodies ==
    {[kind |-> "params",
      params |-> [NoParams EXCEPT !.grant_type = "authorization_code",
                                  !.client_id = "demo", !.code = k]] :
        k \in DOMAIN auth_codes}
    \cup {[kind |-> "params",
           params |-> [NoParams EXCEPT !.grant_type = "refresh_token",
                                       !.client_id = "demo",
                                       !.refresh_token = t]] :
            t \in DOMAIN refresh_tokens}

DemoAuthorize ==
    Serve(Event("GET", "/oauth/authorize", NoHeaders,
                [NoQuery EXCEPT !.client_id = "demo", !.redirect_uri = PlainUri],
                NoBody))

DemoToken ==
    \E b \in DemoTokenBodies :
        Serve(Event("POST", "/oauth/token", NoHeaders, NoQuery, b))

DemoExchange ==
    \E k \in DOMAIN auth_codes :
        Serve(Event("POST", "/oauth/token", NoHeaders, NoQuery,
                    [params |-> [NoParams EXCEPT
                                     !.grant_type = "authorization_code",
                                     !.client_id = "demo", !.code = k],
                     kind |-> "params"]))

\* Refreshes go on after the other requests have reached their bound.
DemoRefresh ==
    \E t \in DOMAIN refresh_tokens :
        ServeWithin(Event("POST", "/oauth/token", NoHeaders, NoQuery,
                          [params |-> [NoParams EXCEPT
                                           !.grant_type = "refresh_token",
                                           !.client_id = "demo",
                                           !.refresh_token = t],
                           kind |-> "params"]),
                    MaxRefreshed)

NextRefresh == Tick \/ DemoAuthorize \/ DemoExchange \/ DemoRefresh \/ Respond

SpecRefresh == Init /\ [][NextRefresh]_vars

NextGateway == Tick \/ DemoAuthorize \/ DemoToken \/ Mcp \/ Other \/ Respond

SpecGateway == InitGateway /\ [][NextGateway]_vars

(***************************************************************************)
(* The authorize endpoint and the client registry: clients registered or   *)
(* not ask for codes, and validate_redirect_uri is called on its own (no   *)
(* handler calls it).  A direct call is a result with no HTTP event: its   *)
(* arguments are in the query, its return value in call.ok.                *)
(***************************************************************************)
DirectCall(op, query, headers, value) ==
    [Idle EXCEPT !.event = Event(None, None, headers, query, NoBody),
                 !.at = now,
                 !.call = [ok |-> value, error |-> None, op |-> op]]

RegistryQueries ==
    {[NoQuery EXCEPT !.client_id = c, !.redirect_uri = u] :
        c \in {"cursor", "demo"},
        u \in {"http://localhost:3000/callback", "https://evil.example/cb", None}}

RegistryAuthorize ==
    \E q \in RegistryQueries :
        Serve(Event("GET", "/oauth/authorize", NoHeaders, q, NoBody))

ValidateRedirect ==
    /\ result = Idle
    /\ \E u \in RegistryUris, c \in RegistryClients :
           result' = DirectCall("validate_redirect_uri",
                                [NoQuery EXCEPT !.client_id = c, !.redirect_uri = u],
                                NoHeaders, validate_redirect_uri(u, c))
    /\ UNCHANGED <<stores, config, peer, now, generated, history, pc, frame>>

NextRegistry == Tick \/ RegistryAuthorize \/ ValidateRedirect \/ Respond

SpecRegistry == Init /\ [][NextRegistry]_vars

(***************************************************************************)
(* The engine and the middleware called directly, as a library: the caller *)
(* chooses the code value it hands to handle_authorization_callback: a new *)
(* one, or one that was exchanged before.                                  *)
(***************************************************************************)
CallCodes == {"code-1", "code-2"}

RequiredScopes == {"all-apis", "sql"}

Callback ==
    /\ result = Idle
    /\ \E code \in CallCodes :
        LET query == [NoQuery EXCEPT !.client_id = "demo",
                                     !.redirect_uri = PlainUri, !.code = code]
            stored == handle_authorization_callback(code, "demo", PlainUri)
        IN  /\ code \in DOMAIN auth_codes => auth_codes[code].used
            /\ Cardinality(DOMAIN stored) <= MaxCodes
            /\ auth_codes' = stored
            /\ requested' = (code :> query) @@ requested
            /\ result' = DirectCall("callback", query, NoHeaders, TRUE)
    /\ UNCHANGED <<access_tokens, refresh_tokens, config, peer, now, generated,
                   redeemed, pc, frame>>

DirectExchange ==
    /\ result = Idle
    /\ \E code \in CallCodes :
        LET r == exchange_code_for_token(code, "demo", PlainUri, None)
            params == [NoParams EXCEPT !.grant_type = "authorization_code",
                                       !.client_id = "demo", !.code = code,
                                       !.redirect_uri = PlainUri]
        IN  /\ r.generated <= MaxTokens
            /\ auth_codes' = r.auth_codes
            /\ access_tokens' = r.access_tokens
            /\ refresh_tokens' = r.refresh_tokens
            /\ generated' = r.generated
            /\ redeemed' = IF r.ok THEN Append(redeemed, code) ELSE redeemed
            /\ result' =
                   [Idle EXCEPT
                        !.event = Event(None, None, NoHeaders, NoQuery,
                                        [params |-> params, kind |-> "params"]),
                        !.at = now,
                        !.response = [Response(0, None, None) EXCEPT
                                          !.token_response = r.token_response],
                        !.call = [ok |-> r.ok, error |-> r.error,
                                  op |-> "exchange"]]
    /\ UNCHANGED <<config, peer, now, requested, pc, frame>>

CheckPermissions ==
    /\ result = Idle
    /\ \E h \in McpHeaders, required \in RequiredScopes :
        LET auth == authenticate_request(h)
        IN  /\ auth.is_authenticated
            /\ result' = DirectCall("check_permissions",
                                    [NoQuery EXCEPT !.scope = required], h,
                                    check_permissions(auth.user_info, required))
    /\ UNCHANGED <<stores, config, peer, now, generated, history, pc, frame>>

NextCalls == Tick \/ Callback \/ DirectExchange \/ CheckPermissions \/ Respond

SpecCalls == InitGateway /\ [][NextCalls]_vars

(***************************************************************************)
(* One client's requests while time advances: the clock goes on whatever   *)
(* requests arrive (strong fairness of Tick), and a handler that has       *)
(* computed its response returns it (weak fairness of Respond).            *)
(***************************************************************************)
SpecLive == Init /\ [][NextRefresh]_vars /\ SF_vars(Tick) /\ WF_vars(Respond)

(***************************************************************************)
(* Every method on every route, with and without an Authorization header.  *)
(***************************************************************************)
RoutedEvents ==
    {Event(method, path, h, q, b) :
        method \in {"GET", "POST", "OPTIONS", "DELETE"},
        path \in {"/health", "/oauth/authorize", "/oauth/callback",
                  "/oauth/token", "/mcp", "/nowhere"},
        h \in {NoHeaders,
               "authorization" :> HeaderValue("Bearer ", "garbage"),
               "authorization" :> HeaderValue("Bearer ", Tok(2))},
        q \in {NoQuery,
               [NoQuery EXCEPT !.client_id = "demo"],
               [NoQuery EXCEPT !.code = Tok(1)]},
        b \in {NoBody,
               [params |-> [NoParams EXCEPT !.grant_type = "authorization_code",
                                            !.client_id = "demo",
                                            !.code = Tok(1)],
                kind |-> "params"]}}

Routed == \E e \in RoutedEvents : Serve(e)

NextRoutes == Tick \/ Routed \/ Respond

SpecRoutes == Init /\ [][NextRoutes]_vars

(***************************************************************************)
(* Two processes, each with its own OAuthHandler (module-level instance,   *)
(* in-memory dicts).  The stores of the process serving the next request   *)
(* are auth_codes, access_tokens and refresh_tokens; those of the other    *)
(* process are in peer.  Route hands the next request to the other         *)
(* process.  Both read the same clock and the same environment, and        *)
(* secrets.token_urlsafe repeats no value across processes.                *)
(***************************************************************************)
\* Route between processes that replicate their stores to each other.
Route_replicating ==
    /\ result = Idle
    /\ auth_codes' = peer.auth_codes @@ auth_codes
    /\ access_tokens' = peer.access_tokens @@ access_tokens
    /\ refresh_tokens' = peer.refresh_tokens @@ refresh_tokens
    /\ peer' = [auth_codes |-> auth_codes,
                access_tokens |-> access_tokens,
                refresh_tokens |-> refresh_tokens,
                serving |-> 3 - peer.serving]
    /\ UNCHANGED <<config, now, generated, result, history, pc, frame>>

Route ==
    /\ result = Idle
    /\ auth_codes' = peer.auth_codes
    /\ access_tokens' = peer.access_tokens
    /\ refresh_tokens' = peer.refresh_tokens
    /\ peer' = [auth_codes |-> auth_codes,
                access_tokens |-> access_tokens,
                refresh_tokens |-> refresh_tokens,
                serving |-> 3 - peer.serving]
    /\ UNCHANGED <<config, now, generated, result, history, pc, frame>>

\* The client presents any value minted so far, by either process, as a code
\* and as a bearer token.
AnyExchange ==
    \E k \in Minted :
        Serve(Event("POST", "/oauth/token", NoHeaders, NoQuery,
                    [params |-> [NoParams EXCEPT
                                     !.grant_type = "authorization_code",
                                     !.client_id = "demo", !.code = k],
                     kind |-> "params"]))

AnyBearer ==
    \E t \in Minted :
        Serve(Event("POST", "/mcp", "authorization" :> HeaderValue("Bearer ", t),
                    NoQuery, JsonRpcBody))

NextInstances ==
    Tick \/ Route \/ DemoAuthorize \/ AnyExchange \/ AnyBearer \/ Respond

SpecInstances == Init /\ [][NextInstances]_vars

(***************************************************************************)
(* Malformed events: a null header mapping, and a body that is JSON but    *)
(* not an object, on every route, next to the well-formed requests.        *)
(***************************************************************************)
NotObjectBody == [params |-> NoParams, kind |-> "not_object"]

MalformedEvents ==
    {Event(method, path, NullHeaders, q, b) :
        method \in {"GET", "POST"},
        path \in {"/health", "/oauth/authorize", "/oauth/callback",
                  "/oauth/token", "/mcp"},
        q \in {NoQuery, [NoQuery EXCEPT !.client_id = "demo"]},
        b \in {NoBody, JsonRpcBody, NotObjectBody}}
    \cup {Event("POST", path, h, NoQuery, NotObjectBody) :
            path \in {"/oauth/token", "/mcp"},
            h \in {NoHeaders, "authorization" :> HeaderValue("Bearer ", Tok(2))}}

Malformed == \E e \in MalformedEvents : Serve(e)

NextFaults ==
    Tick \/ DemoAuthorize \/ DemoToken \/ Mcp \/ Other \/ Malformed \/ Respond

SpecFaults == Init /\ [][NextFaults]_vars

(***************************************************************************)
(* The engine under every configured access-token TTL, used by one         *)
(* well-behaved client.                                                    *)
(***************************************************************************)
InitConfigured == InitEnv({None}, AccessTTLMinutesEnv)

NextConfigured == Tick \/ DemoAuthorize \/ DemoToken \/ Respond

SpecConfigured == InitConfigured /\ [][NextConfigured]_vars

(***************************************************************************)
(* Two threads of one process calling exchange_code_for_token.  A thread   *)
(* can be preempted between the validations (lines 141-161) and the        *)
(* statement that marks the code used (line 164).                          *)
(***************************************************************************)
ThreadCalls ==
    {[NoFrame EXCEPT !.code = k, !.client_id = c, !.redirect_uri = r] :
        k \in DOMAIN auth_codes \cup {"garbage"},
        c \in {"demo"},
        r \in {PlainUri}}

ExchangeBegin(t) ==
    /\ result = Idle
    /\ pc[t] = "idle"
    /\ \E call \in ThreadCalls :
        LET error == exchange_validate(call.code, call.client_id, call.redirect_uri)
        IN  IF error # None
            THEN /\ frame' = [frame EXCEPT ![t] =
                                 [call EXCEPT !.returned = TRUE, !.error = error]]
                 /\ pc' = pc
            ELSE /\ frame' = [frame EXCEPT ![t] = call]
                 /\ pc' = [pc EXCEPT ![t] = "validated"]
    /\ UNCHANGED <<stores, config, peer, now, generated, result, history>>

ExchangeFinish(t) ==
    LET r == exchange_issue(frame[t].code, frame[t].client_id)
    IN  /\ pc[t] = "validated"
        /\ Len(redeemed) < MaxRedemptions
        /\ auth_codes' = r.auth_codes
        /\ access_tokens' = r.access_tokens
        /\ refresh_tokens' = r.refresh_tokens
        /\ generated' = r.generated
        /\ frame' = [frame EXCEPT ![t] =
                        [@ EXCEPT !.returned = TRUE, !.ok = TRUE,
                                  !.token_response = r.token_response]]
        /\ pc' = [pc EXCEPT ![t] = "idle"]
        /\ redeemed' = Append(redeemed, frame[t].code)
        /\ UNCHANGED <<config, peer, now, result, requested>>

NextThreads ==
    \/ Tick
    \/ DemoAuthorize
    \/ Respond
    \/ \E t \in Threads : ExchangeBegin(t)
    \/ \E t \in Threads : ExchangeFinish(t)

SpecThreads == Init /\ [][NextThreads]_vars

(***************************************************************************)
(* Properties.                                                             *)
(***************************************************************************)
Range(seq) == {seq[i] : i \in DOMAIN seq}

Params == result.event.body.params

\* This step is a call of exchange_code_for_token made by the token
\* endpoint: unprimed variables are the state before the call, result'
\* holds the arguments and the return value.
Exchanging == result = Idle /\ result'.call.op = "exchange"

NoCodeRedeemedTwice ==
    \A i, j \in DOMAIN redeemed : redeemed[i] = redeemed[j] => i = j

\* C1: over any sequence of exchanges of one code at most one succeeds, and
\* every exchange attempted after the successful one fails with
\* 'Authorization code already used'.
C1_SingleUse ==
    /\ [](NoCodeRedeemedTwice)
    /\ [][(Exchanging /\ result'.event.body.params.code \in Range(redeemed))
            => /\ ~result'.call.ok
               /\ result'.call.error = "Authorization code already used"]_vars

C1_Witness ==
    /\ result.call.op = "exchange"
    /\ Params.code \in Range(redeemed)
    /\ result.call.error = "Authorization code already used"

\* C2: of two concurrent exchanges of the same code at most one succeeds:
\* no two threads both return success for one code.
C2_OneWinner ==
    \A t1, t2 \in Threads :
        (/\ t1 # t2
         /\ frame[t1].returned /\ frame[t1].ok
         /\ frame[t2].returned /\ frame[t2].ok)
        => frame[t1].code # frame[t2].code

\* The Authorization header of a request, whatever the case of its name.
AuthorizationOf(headers) ==
    IF "authorization" \in DOMAIN headers THEN headers["authorization"]
    ELSE IF "Authorization" \in DOMAIN headers THEN headers["Authorization"]
    ELSE IF "AUTHORIZATION" \in DOMAIN headers THEN headers["AUTHORIZATION"]
    ELSE NoHeader

\* The header is missing, malformed, or its token is neither a valid,
\* unexpired access token nor the static token.
BadCredentials(headers) ==
    LET v == AuthorizationOf(headers)
    IN  \/ v = NoHeader
        \/ v[1] # "Bearer "
        \/ /\ ~(v[2] \in DOMAIN access_tokens
                /\ now <= access_tokens[v[2]].expires_at)
           /\ ~(v[2] \in DOMAIN valid_pats
                /\ now <= valid_pats[v[2]].expires_at)

\* C3: POST /mcp reaches the dispatcher only when authenticate_request
\* accepted its headers in that invocation; with bad credentials it gets
\* 401, WWW-Authenticate: Bearer and error 'Unauthorized', and the
\* dispatcher is not called.
C3_McpGated ==
    /\ result.dispatched =>
           /\ result.event.path = "/mcp" /\ result.event.method = "POST"
           /\ result.call.op = "authenticate" /\ result.call.ok
           /\ authenticate_request(result.event.headers).is_authenticated
    /\ (/\ result.event.path = "/mcp" /\ result.event.method = "POST"
        /\ BadCredentials(result.event.headers))
       => /\ result.response.statusCode = 401
          /\ result.response.www_authenticate
                 = "Bearer realm=\"Databricks MCP Server\""
          /\ result.response.error = "Unauthorized"
          /\ ~result.dispatched

C3_Witness ==
    /\ result.event.path = "/mcp" /\ result.event.method = "POST"
    /\ AuthorizationOf(result.event.headers) = HeaderValue("Bearer ", "garbage")
    /\ result.response.statusCode = 401
    /\ result.call.error = "Invalid or expired token"

\* C4: a code exchanged right after it was issued, with the client id and
\* redirect URI it was issued for, yields an access token, and that token
\* validates at every time up to its TTL past the exchange and at no time
\* after.
C4_IssueExchangeValidate ==
    /\ [][(/\ Exchanging
           /\ result'.event.body.params.code \in DOMAIN auth_codes
           /\ result'.event.body.params.code \notin Range(redeemed)
           /\ auth_codes[result'.event.body.params.code].created_at = now
           /\ auth_codes[result'.event.body.params.code].client_id
                  = result'.event.body.params.client_id
           /\ auth_codes[result'.event.body.params.code].redirect_uri
                  = result'.event.body.params.redirect_uri)
            => /\ result'.call.ok
               /\ result'.response.statusCode = 200
               /\ LET t == result'.response.token_response.access_token
                  IN  /\ t \in DOMAIN access_tokens'
                      /\ t \notin DOMAIN access_tokens
                      /\ access_tokens'[t].created_at = now]_vars
    /\ [](\A t \in DOMAIN access_tokens :
             validate_token(t)
                 <=> now <= access_tokens[t].created_at + access_token_ttl)

C4_Witness ==
    \E t \in DOMAIN access_tokens :
        /\ t \in {Tok(k) : k \in 1..generated}
        /\ now = access_tokens[t].created_at + access_token_ttl + 1
        /\ redeemed # <<>>
        /\ ~validate_token(t)

\* C5: a code issued for an authorize request with a code_challenge is
\* exchanged successfully only with a code_verifier that matches the
\* challenge under the requested method.
C5_PkceEnforced ==
    (/\ result.call.op = "exchange"
     /\ result.call.ok
     /\ Truthy(requested[Params.code].code_challenge))
    => /\ Truthy(Params.code_verifier)
       /\ Challenge(Params.code_verifier,
                    requested[Params.code].code_challenge_method)
              = requested[Params.code].code_challenge

\* The code of the exchange this step makes, and its record before the call.
Code == result'.event.body.params.code

\* C6 as stated: a code, access token or refresh token whose expires_at
\* equals the current time is rejected by exchange, validate and refresh.
C6_BoundaryRejected ==
    /\ (/\ result.call.op = "exchange"
        /\ Params.code \in DOMAIN auth_codes
        /\ auth_codes[Params.code].expires_at = result.at)
       => ~result.call.ok
    /\ \A t \in DOMAIN access_tokens :
           access_tokens[t].expires_at = now => ~validate_token(t)
    /\ (/\ result.call.op = "refresh"
        /\ Params.refresh_token \in DOMAIN refresh_tokens
        /\ refresh_tokens[Params.refresh_token].expires_at = result.at)
       => ~result.call.ok

\* C6 amended: at now = expires_at a code, access token or refresh token is
\* not yet expired (exchange and refresh do not report it expired, validate
\* accepts it); it is rejected at every time after expires_at.
C6_BoundaryAccepted ==
    /\ (/\ result.call.op = "exchange"
        /\ Params.code \in DOMAIN auth_codes)
       => /\ auth_codes[Params.code].expires_at = result.at
             => result.call.error # "Authorization code expired"
          /\ auth_codes[Params.code].expires_at < result.at
             => ~result.call.ok
    /\ \A t \in DOMAIN access_tokens :
           /\ access_tokens[t].expires_at = now => validate_token(t)
           /\ access_tokens[t].expires_at < now => ~validate_token(t)
    /\ (/\ result.call.op = "refresh"
        /\ Params.refresh_token \in DOMAIN refresh_tokens)
       => /\ refresh_tokens[Params.refresh_token].expires_at = result.at
             => result.call.error # "Refresh token expired"
          /\ refresh_tokens[Params.refresh_token].expires_at < result.at
             => ~result.call.ok

C6_Witness ==
    /\ result.call.op = "exchange"
    /\ result.call.ok
    /\ auth_codes[Params.code].expires_at = result.at

\* C7: an exchange of an unused code succeeds only at now <= expires_at
\* (= issuance time + 600 s); at now > expires_at it fails with
\* 'Authorization code expired', mints nothing and leaves the code unused.
C7_ExpiredCodeRejected ==
    /\ [](\A c \in DOMAIN auth_codes :
             auth_codes[c].expires_at = auth_codes[c].created_at + CodeTTL)
    /\ [][(Exchanging /\ Code \in DOMAIN auth_codes /\ ~auth_codes[Code].used)
            => /\ result'.call.ok => now <= auth_codes[Code].expires_at
               /\ now > auth_codes[Code].expires_at
                  => /\ ~result'.call.ok
                     /\ result'.call.error = "Authorization code expired"
                     /\ access_tokens' = access_tokens
                     /\ refresh_tokens' = refresh_tokens
                     /\ ~auth_codes'[Code].used]_vars

C7_Witness ==
    /\ result.call.op = "exchange"
    /\ result.call.error = "Authorization code expired"
    /\ ~auth_codes[Params.code].used
    /\ result.at > auth_codes[Params.code].created_at + CodeTTL

\* C8 as stated: an exchange with a client_id other than the one recorded
\* on the code always fails with the client-mismatch error.
C8_AlwaysClientMismatch ==
    (/\ result.call.op = "exchange"
     /\ Params.code \in DOMAIN auth_codes
     /\ auth_codes[Params.code].client_id # Params.client_id)
    => /\ ~result.call.ok
       /\ result.call.error = "Client ID mismatch"

\* C8 amended: such an exchange always fails and mints no token; the error
\* is the client-mismatch one when the code is unused and unexpired (a used
\* or expired code is reported as such first).
C8_WrongClientRejected ==
    [][(/\ Exchanging
        /\ Code \in DOMAIN auth_codes
        /\ auth_codes[Code].client_id # result'.event.body.params.client_id)
         => /\ ~result'.call.ok
            /\ UNCHANGED stores
            /\ (~auth_codes[Code].used /\ now <= auth_codes[Code].expires_at)
               => result'.call.error = "Client ID mismatch"]_vars

C8_Witness ==
    /\ result.call.op = "exchange"
    /\ Params.code \in DOMAIN auth_codes
    /\ auth_codes[Params.code].client_id # Params.client_id
    /\ result.call.error = "Client ID mismatch"

\* C9 as stated: with a redirect_uri supplied the exchange succeeds only if
\* it equals the recorded one and otherwise fails with the
\* redirect-mismatch error.
C9_AlwaysRedirectMismatch ==
    (/\ result.call.op = "exchange"
     /\ Params.code \in DOMAIN auth_codes
     /\ Truthy(Params.redirect_uri)
     /\ auth_codes[Params.code].redirect_uri # Params.redirect_uri)
    => /\ ~result.call.ok
       /\ result.call.error = "Redirect URI mismatch"

\* The code passes the checks made before the redirect URI is looked at.
PassesEarlierChecks(code, client_id) ==
    /\ ~auth_codes[code].used
    /\ now <= auth_codes[code].expires_at
    /\ auth_codes[code].client_id = client_id

\* C9 amended: with a redirect_uri supplied the exchange succeeds only if it
\* equals the recorded one; a different one fails, with the
\* redirect-mismatch error when the code is unused, unexpired and presented
\* by its client; with no redirect_uri the check is skipped and such a code
\* is exchanged.
C9_RedirectChecked ==
    [][(Exchanging /\ Code \in DOMAIN auth_codes)
         => LET p == result'.event.body.params
                passes == PassesEarlierChecks(Code, p.client_id)
            IN  /\ (/\ Truthy(p.redirect_uri)
                    /\ auth_codes[Code].redirect_uri # p.redirect_uri)
                   => /\ ~result'.call.ok
                      /\ passes => result'.call.error = "Redirect URI mismatch"
                /\ (~Truthy(p.redirect_uri) /\ passes) => result'.call.ok
                /\ (/\ Truthy(p.redirect_uri)
                    /\ auth_codes[Code].redirect_uri = p.redirect_uri
                    /\ passes) => result'.call.ok]_vars

C9_Witness ==
    /\ result.call.op = "exchange"
    /\ Truthy(Params.redirect_uri)
    /\ result.call.error = "Redirect URI mismatch"

\* C10: an exchange of a code this handler never issued fails with
\* 'Invalid authorization code' and changes none of the three stores.
C10_UnknownCodeRejected ==
    [][(Exchanging /\ Code \notin DOMAIN requested)
         => /\ ~result'.call.ok
            /\ result'.call.error = "Invalid authorization code"
            /\ result'.response.statusCode = 400
            /\ UNCHANGED stores]_vars

C10_Witness ==
    /\ result.call.op = "exchange"
    /\ Params.code \notin DOMAIN requested
    /\ result.call.error = "Invalid authorization code"
    /\ generated > 0

\* store2 is store with exactly one record added, under key.
AddsOne(store, store2, key) ==
    /\ key \notin DOMAIN store
    /\ DOMAIN store2 = DOMAIN store \cup {key}
    /\ \A k \in DOMAIN store : store2[k] = store[k]

\* C11: a successful exchange adds exactly one access-token record and one
\* refresh-token record, bound to the code's client id, its scope and the
\* subject 'authenticated_user', expiring at now + access TTL and now +
\* refresh TTL, and its response names those two records (token_type
\* 'Bearer', expires_in, scope).
C11_ExchangeMintsPair ==
    [][(Exchanging /\ result'.call.ok)
         => LET resp == result'.response.token_response
                minted == [scope |-> auth_codes[Code].scope,
                           client_id |-> auth_codes[Code].client_id,
                           created_at |-> now,
                           expires_at |-> now + access_token_ttl,
                           user_id |-> "authenticated_user"]
            IN  /\ AddsOne(access_tokens, access_tokens', resp.access_token)
                /\ AddsOne(refresh_tokens, refresh_tokens', resp.refresh_token)
                /\ resp.access_token # resp.refresh_token
                /\ access_tokens'[resp.access_token] = minted
                /\ refresh_tokens'[resp.refresh_token]
                       = [minted EXCEPT !.expires_at = now + refresh_token_ttl]
                /\ resp.token_type = "Bearer"
                /\ resp.expires_in = access_token_ttl
                /\ resp.scope = auth_codes[Code].scope]_vars

C11_Witness ==
    /\ result.call.op = "exchange"
    /\ result.call.ok
    /\ result.response.token_response.access_token \in DOMAIN access_tokens
    /\ result.response.token_response.refresh_token \in DOMAIN refresh_tokens
    /\ auth_codes[Params.code].client_id = "other"

\* The scope an authorize request asks for: its scope parameter, the
\* default 'all-apis' when it has none.
RequestedScope(query) == IF query.scope = None THEN "all-apis" ELSE query.scope

\* C12: the scope recorded on a code is the scope its authorize request
\* asked for (the default when none), and the tokens minted from the code
\* and the token response carry that scope.
C12_ScopeCarried ==
    /\ \A c \in DOMAIN auth_codes :
           auth_codes[c].scope = RequestedScope(requested[c])
    /\ (result.call.op = "exchange" /\ result.call.ok)
       => LET resp == result.response.token_response
              scope == RequestedScope(requested[Params.code])
          IN  /\ resp.scope = scope
              /\ access_tokens[resp.access_token].scope = scope
              /\ refresh_tokens[resp.refresh_token].scope = scope

\* C13: under every configured access-token TTL of m minutes, the
\* expires_in of every token response (exchange and refresh) is m*60 and
\* is expires_at - created_at of the stored access-token record; under the
\* default 60 minutes it is 3600.
C13_ExpiresIn ==
    (result.call.op \in {"exchange", "refresh"} /\ result.call.ok)
    => LET resp == result.response.token_response
           rec == access_tokens[resp.access_token]
       IN  /\ \E m \in AccessTTLMinutesEnv :
                  /\ access_token_ttl = m * SecondsPerMinute
                  /\ resp.expires_in = m * SecondsPerMinute
           /\ resp.expires_in = rec.expires_at - rec.created_at
           /\ access_token_ttl = DefaultAccessTTLMinutes * SecondsPerMinute
              => resp.expires_in = 3600

C13_Witness ==
    /\ result.call.op = "refresh"
    /\ result.call.ok
    /\ result.response.token_response.expires_in = SecondsPerMinute
    /\ now > 0

\* This step is a call of refresh_access_token made by the token endpoint.
Refreshing == result = Idle /\ result'.call.op = "refresh"

\* The refresh token and client id of the refresh this step makes.
Presented == result'.event.body.params

\* C14: a refresh with an existing, unexpired refresh token and its client
\* id succeeds, adds one access token different from every token minted
\* before, expiring at now + access TTL, returns the presented refresh
\* token unchanged (no rotation), and the new access token validates.
C14_RefreshMintsAccess ==
    /\ [][(/\ Refreshing
           /\ Presented.refresh_token \in DOMAIN refresh_tokens
           /\ now <= refresh_tokens[Presented.refresh_token].expires_at
           /\ refresh_tokens[Presented.refresh_token].client_id
                  = Presented.client_id)
            => LET resp == result'.response.token_response
               IN  /\ result'.call.ok
                   /\ result'.response.statusCode = 200
                   /\ AddsOne(access_tokens, access_tokens', resp.access_token)
                   /\ resp.access_token \notin {Tok(k) : k \in 1..generated}
                   /\ access_tokens'[resp.access_token].expires_at
                          = now + access_token_ttl
                   /\ resp.refresh_token = Presented.refresh_token
                   /\ refresh_tokens' = refresh_tokens]_vars
    /\ []((result.call.op = "refresh" /\ result.call.ok)
            => validate_token(result.response.token_response.access_token))

C14_Witness ==
    /\ result.call.op = "refresh"
    /\ result.call.ok
    /\ result.response.token_response.refresh_token = Params.refresh_token
    /\ result.at > refresh_tokens[Params.refresh_token].created_at
    /\ validate_token(result.response.token_response.access_token)

\* C15: a refresh fails, mints no access token and changes no store when
\* the refresh token is unknown, when it is expired, or when the client id
\* is not the one the refresh token was issued to.
C15_RefreshRejected ==
    [][(/\ Refreshing
        /\ \/ Presented.refresh_token \notin DOMAIN refresh_tokens
           \/ now > refresh_tokens[Presented.refresh_token].expires_at
           \/ refresh_tokens[Presented.refresh_token].client_id
                  # Presented.client_id)
         => /\ ~result'.call.ok
            /\ result'.response.statusCode = 400
            /\ result'.response.token_response = NoTokenResponse
            /\ generated' = generated
            /\ UNCHANGED stores]_vars

C15_Witness ==
    /\ result.call.op = "refresh"
    /\ Params.refresh_token \in DOMAIN refresh_tokens
    /\ result.at <= refresh_tokens[Params.refresh_token].expires_at
    /\ refresh_tokens[Params.refresh_token].client_id # Params.client_id
    /\ result.call.error = "Client ID mismatch"

\* The request being answered is a POST /mcp.
McpAnswered == result.event.path = "/mcp" /\ result.event.method = "POST"

\* The Authorization header authenticate_request finds in the headers of
\* the request being answered.
Found ==
    LET lower == HeaderGet(result.event.headers, "authorization")
    IN  IF HeaderTruthy(lower) THEN lower
        ELSE HeaderGet(result.event.headers, "Authorization")

\* The request being answered carries a 'Bearer <token>' header.
BearerAnswered == McpAnswered /\ HeaderTruthy(Found) /\ Found[1] = "Bearer "

\* C16: validate_token accepts t exactly when t is a key of the
\* access-token store and now has not passed its expires_at; refresh tokens
\* and authorization codes presented as access tokens are rejected (a
\* bearer request with one is answered 401 when it is no static token); and
\* a validation changes none of the three stores.
C16_ValidateToken ==
    /\ [](\A t \in Minted \cup {"dev-pat"} :
             validate_token(t) <=> /\ t \in DOMAIN access_tokens
                                   /\ now <= access_tokens[t].expires_at)
    /\ [](\A t \in DOMAIN refresh_tokens \cup DOMAIN auth_codes :
             ~validate_token(t))
    /\ []((/\ BearerAnswered
           /\ Found[2] \in DOMAIN refresh_tokens \cup DOMAIN auth_codes
           /\ Found[2] \notin DOMAIN valid_pats)
            => /\ ~result.call.ok
               /\ result.response.statusCode = 401)
    /\ []((BearerAnswered /\ Found[2] \notin DOMAIN valid_pats)
            => (result.call.ok <=> validate_token(Found[2])))
    /\ [][(result = Idle /\ result'.call.op = "authenticate")
            => UNCHANGED stores]_vars

C16_Witness ==
    /\ BearerAnswered
    /\ Found[2] \in DOMAIN refresh_tokens
    /\ now <= refresh_tokens[Found[2]].expires_at
    /\ result.call.error = "Invalid or expired token"

\* C17: the Authorization header is found whatever the letter case of its
\* key, and 'Missing Authorization header' is reported only when the
\* headers hold no Authorization header at all.
C17_AnyCaseFound ==
    McpAnswered
    => /\ HeaderTruthy(AuthorizationOf(result.event.headers))
          => result.call.error # "Missing Authorization header"
       /\ result.call.error = "Missing Authorization header"
          => AuthorizationOf(result.event.headers) = NoHeader

\* C18: a header value that does not start with exactly 'Bearer ' is
\* rejected as malformed, whatever follows the prefix, a valid access token
\* or static token included.
C18_MalformedRejected ==
    (McpAnswered /\ HeaderTruthy(Found) /\ Found[1] # "Bearer ")
    => /\ ~result.call.ok
       /\ result.call.error
              = "Invalid Authorization header format. Expected 'Bearer <token>'"
       /\ result.response.statusCode = 401
       /\ ~result.dispatched

C18_Witness ==
    /\ McpAnswered
    /\ HeaderTruthy(Found)
    /\ Found[1] = "bearer "
    /\ validate_token(Found[2])
    /\ result.response.statusCode = 401

\* C19: with a 'Bearer <token>' header the request is authenticated iff
\* the token validates in the engine or in the static-token authenticator;
\* the identity is the engine's record whenever the engine accepts the
\* token, the static one otherwise; a token valid in neither fails with
\* 'Invalid or expired token'.
C19_EngineThenStatic ==
    BearerAnswered
    => LET token == Found[2]
           auth == authenticate_request(result.event.headers)
       IN  /\ result.call.ok <=> (validate_token(token) \/ validate_pat(token))
           /\ auth.is_authenticated = result.call.ok
           /\ validate_token(token) => auth.user_info = access_tokens[token]
           /\ (~validate_token(token) /\ validate_pat(token))
              => auth.user_info = valid_pats[token]
           /\ (~validate_token(token) /\ ~validate_pat(token))
              => /\ result.call.error = "Invalid or expired token"
                 /\ result.response.statusCode = 401

C19_Witness ==
    /\ BearerAnswered
    /\ result.call.ok
    /\ result.dispatched
    /\ Found[2] \notin DOMAIN access_tokens
    /\ Found[2] \in DOMAIN valid_pats

\* C20: an authentication, successful or not, leaves the
\* authorization-code, access-token and refresh-token stores and the
\* static-token table as they were.
C20_AuthenticateReadOnly ==
    [][(result = Idle /\ result'.call.op = "authenticate")
         => /\ auth_codes' = auth_codes
            /\ access_tokens' = access_tokens
            /\ refresh_tokens' = refresh_tokens
            /\ valid_pats' = valid_pats
            /\ generated' = generated]_vars

C20_Witness ==
    /\ BearerAnswered
    /\ result.call.ok
    /\ Found[2] \in DOMAIN access_tokens
    /\ access_tokens # EmptyDict

\* C21: with DEV_PAT_TOKEN unset (or empty) at start-up the static-token
\* table is empty, the static authenticator accepts no token, the empty one
\* included, and a request is authenticated only with a token the engine
\* validates.
C21_StaticPathDisabled ==
    /\ load_pats(None) = EmptyDict
    /\ load_pats("") = EmptyDict
    /\ valid_pats = EmptyDict
       => /\ \A t \in Minted \cup {"dev-pat", ""} : ~validate_pat(t)
          /\ (McpAnswered /\ result.call.ok)
             => /\ BearerAnswered
                /\ validate_token(Found[2])

C21_Witness ==
    /\ valid_pats = EmptyDict
    /\ BearerAnswered
    /\ Found[2] = "dev-pat"
    /\ result.response.statusCode = 401
    /\ result.call.error = "Invalid or expired token"

\* The client is in the registry, under its lower-cased name.
Registered(client) == Lower(client) \in DOMAIN MCP_CLIENT_CONFIGS

\* entry is a wildcard entry: its last character is '*'.
Wildcard(entry) == Len(entry) > 0 /\ SubSeq(entry, Len(entry), Len(entry)) = "*"

\* redirect_uri is allowed by entry: equal to it, or, for a wildcard entry,
\* beginning with the text before its trailing '*'.
Allows(entry, redirect_uri) ==
    \/ entry = redirect_uri
    \/ /\ Wildcard(entry)
       /\ StartsWith(redirect_uri, SubSeq(entry, 1, Len(entry) - 1))

\* C30: validate_redirect_uri(redirect_uri, client) is true iff the client
\* is registered and one of its allowed URIs equals redirect_uri or is a
\* wildcard entry whose text before the trailing '*' begins redirect_uri;
\* it is false for every unregistered client, and it changes no state.
C30_ValidateRedirectUri ==
    /\ [](result.call.op = "validate_redirect_uri"
            => LET client == result.event.query.client_id
                   uri == result.event.query.redirect_uri
               IN  /\ result.call.ok
                       <=> /\ Registered(client)
                           /\ \E e \in Range(MCP_CLIENT_CONFIGS[Lower(client)].redirect_urls) :
                                  Allows(e, uri)
                   /\ ~Registered(client) => ~result.call.ok)
    /\ [][(result = Idle /\ result'.call.op = "validate_redirect_uri")
            => UNCHANGED <<stores, config, generated>>]_vars

C30_Witness ==
    /\ result.call.op = "validate_redirect_uri"
    /\ result.call.ok
    /\ result.event.query.client_id = "Cursor"
    /\ result.event.query.redirect_uri = "http://localhost:3000/callback"

\* This step answers a GET /oauth/authorize; Asked is its query.
Authorizing ==
    /\ result = Idle
    /\ result'.event.path = "/oauth/authorize"
    /\ result'.event.method = "GET"

Asked == result'.event.query

\* The redirect URI an authorize request is answered on: the one it
\* supplies, the callback of this service when it supplies none.
RedirectOf(query) ==
    IF Truthy(query.redirect_uri) THEN query.redirect_uri ELSE DefaultCallback

\* C23: an authorize request with no client_id (absent or empty) gets 400
\* 'invalid_request' and creates and stores no code.
C23_MissingClientId ==
    [][(Authorizing /\ ~Truthy(Asked.client_id))
         => /\ result'.response.statusCode = 400
            /\ result'.response.error = "invalid_request"
            /\ result'.call.op = "none"
            /\ generated' = generated
            /\ UNCHANGED stores]_vars

C23_Witness ==
    /\ result.event.path = "/oauth/authorize"
    /\ result.event.query.client_id = ""
    /\ result.response.statusCode = 400
    /\ result.response.message = "Missing client_id"

\* C24: an authorize request with a client_id gets 302 with Location =
\* redirect URI, '?' or '&', code=<code> and, when state was supplied,
\* &state=<state> unmodified; <code> is a new unused code bound to that
\* client_id and redirect URI, and an exchange of it passes every check.
C24_AuthorizeRedirects ==
    /\ [][(Authorizing /\ Truthy(Asked.client_id))
            => LET code == Tok(generated + 1)
                   tail == "code=" \o code \o
                           (IF Truthy(Asked.state)
                            THEN "&state=" \o Asked.state ELSE "")
               IN  /\ result'.response.statusCode = 302
                   /\ result'.response.location
                          = RedirectOf(Asked)
                            \o (IF Contains(RedirectOf(Asked), "?")
                                THEN "&" ELSE "?")
                            \o tail
                   /\ AddsOne(auth_codes, auth_codes', code)
                   /\ access_tokens' = access_tokens
                   /\ refresh_tokens' = refresh_tokens
                   /\ auth_codes'[code].client_id = Asked.client_id
                   /\ auth_codes'[code].redirect_uri = RedirectOf(Asked)
                   /\ ~auth_codes'[code].used]_vars
    /\ [](result.call.op = "callback"
            => exchange_validate(Tok(generated), result.event.query.client_id,
                                 RedirectOf(result.event.query)) = None)

C24_Witness ==
    /\ result.call.op = "callback"
    /\ result.event.query.state = "xyz"
    /\ result.response.statusCode = 302
    /\ ~auth_codes[Tok(generated)].used

\* C29: the authorize step issues a code for every non-empty client_id and
\* every redirect_uri, in the client registry or not, and records the
\* supplied redirect URI verbatim on the code.
C29_RegistryNotConsulted ==
    [][(Authorizing /\ Truthy(Asked.client_id))
         => /\ result'.call.op = "callback"
            /\ result'.call.ok
            /\ result'.response.statusCode = 302
            /\ Tok(generated + 1) \in DOMAIN auth_codes'
            /\ auth_codes'[Tok(generated + 1)].client_id = Asked.client_id
            /\ Truthy(Asked.redirect_uri)
               => auth_codes'[Tok(generated + 1)].redirect_uri
                      = Asked.redirect_uri]_vars

C29_Witness ==
    /\ result.call.op = "callback"
    /\ ~Registered(result.event.query.client_id)
    /\ ~validate_redirect_uri(result.event.query.redirect_uri, "cursor")
    /\ auth_codes[Tok(generated)].redirect_uri = "https://evil.example/cb"

\* The error descriptions of the engine's refusals.
GrantErrors ==
    {"Invalid authorization code", "Authorization code already used",
     "Authorization code expired", "Client ID mismatch",
     "Redirect URI mismatch", "Invalid refresh token", "Refresh token expired"}

\* C25: every refusal of an exchange or refresh is answered 400 with error
\* 'invalid_grant' and the engine's description; every success is answered
\* 200 with Cache-Control: no-store and Pragma: no-cache.
C25_TokenEndpointReplies ==
    (result.event.path = "/oauth/token"
     /\ result.call.op \in {"exchange", "refresh"})
    => IF result.call.ok
       THEN /\ result.response.statusCode = 200
            /\ result.response.cache_control = "no-store"
            /\ result.response.pragma = "no-cache"
            /\ result.response.error = None
       ELSE /\ result.response.statusCode = 400
            /\ result.response.error = "invalid_grant"
            /\ result.response.message = result.call.error
            /\ result.call.error \in GrantErrors

C25_Witness ==
    /\ result.event.path = "/oauth/token"
    /\ result.call.op = "refresh"
    /\ result.call.error = "Refresh token expired"
    /\ result.response.error = "invalid_grant"

\* This step answers a POST /oauth/token with a parsed body; Sent is its
\* parameters.
TokenRequest ==
    /\ result = Idle
    /\ result'.event.path = "/oauth/token"
    /\ result'.event.method = "POST"
    /\ result'.event.body.kind = "params"

Sent == result'.event.body.params

\* C26: a token request without grant_type or client_id, or without the
\* credential of its grant (code, refresh_token), gets 400
\* 'invalid_request'; one with both and another grant_type gets 400
\* 'unsupported_grant_type'; the engine is not called and no store changes.
C26_TokenRequestRejected ==
    [][TokenRequest
         => /\ (\/ ~Truthy(Sent.grant_type)
                \/ ~Truthy(Sent.client_id)
                \/ Sent.grant_type = "authorization_code" /\ ~Truthy(Sent.code)
                \/ Sent.grant_type = "refresh_token" /\ ~Truthy(Sent.refresh_token))
               => /\ result'.response.statusCode = 400
                  /\ result'.response.error = "invalid_request"
                  /\ result'.call.op = "none"
                  /\ generated' = generated
                  /\ UNCHANGED stores
            /\ (/\ Truthy(Sent.grant_type)
                /\ Truthy(Sent.client_id)
                /\ Sent.grant_type \notin {"authorization_code", "refresh_token"})
               => /\ result'.response.statusCode = 400
                  /\ result'.response.error = "unsupported_grant_type"
                  /\ result'.call.op = "none"
                  /\ generated' = generated
                  /\ UNCHANGED stores]_vars

C26_Witness ==
    /\ result.event.path = "/oauth/token"
    /\ result.event.body.params.grant_type = "password"
    /\ result.response.error = "unsupported_grant_type"
    /\ auth_codes # EmptyDict

\* The scopes granted to an identity authenticate_request returns: the
\* scope of an engine token record, the scopes of the static identity.
Granted(user_info) ==
    IF "scopes" \in DOMAIN user_info THEN Range(user_info.scopes)
    ELSE {user_info.scope}

\* C22: check_permissions(token_info, required) is true iff required or
\* 'all-apis' is among the scopes granted to the token, for the record of
\* an engine-minted access token and for the static-token identity alike.
C22_CheckPermissions ==
    result.call.op = "check_permissions"
    => LET user_info == authenticate_request(result.event.headers).user_info
           required == result.event.query.scope
       IN  result.call.ok <=> \/ required \in Granted(user_info)
                              \/ "all-apis" \in Granted(user_info)

\* C28: a code value that was used is never exchanged successfully again,
\* whatever sequence of engine calls follows, handle_authorization_callback
\* with that same code value included.
C28_NoReissue ==
    \A i, j \in DOMAIN redeemed : i # j => redeemed[i] # redeemed[j]

StatusCodes == {200, 302, 400, 401, 404, 500}

\* The requests on which the program reads a header of a null header mapping
\* or a parameter of a body that is not an object.
Faulting(event) ==
    \/ /\ event.headers = NullHeaders
       /\ \/ event.path = "/mcp" /\ event.method = "POST"
          \/ /\ event.path = "/oauth/token" /\ event.method = "POST"
             /\ event.body.kind # "empty"
          \/ /\ event.path = "/oauth/authorize" /\ event.method = "GET"
             /\ Truthy(event.query.client_id)
    \/ /\ event.path = "/oauth/token" /\ event.method = "POST"
       /\ event.body.kind = "not_object"

\* C27: every event, malformed ones included, is answered by a response
\* whose statusCode is one of 200, 302, 400, 401, 404 and 500; no exception
\* leaves lambda_handler, and a request on which the program faults
\* internally is answered 500.
C27_FailuresAreValues ==
    result # Idle =>
        /\ result.response.statusCode \in StatusCodes
        /\ result.call.op # "raise"
        /\ Faulting(result.event) => result.response.statusCode = 500

\* A POST /mcp with a null header mapping was answered 500 by
\* lambda_handler's own except clause.
C27_Witness ==
    /\ result.event.path = "/mcp"
    /\ result.event.method = "POST"
    /\ result.event.headers = NullHeaders
    /\ result.response.statusCode = 500
    /\ result.response.error = "Internal Server Error"

\* C31: the error of a failed exchange is that of the first failing check in
\* the order existence, used, expired, client, redirect: a used and expired
\* code is reported as already used, an expired code presented by the wrong
\* client as expired, a wrong client with a wrong redirect_uri as client
\* mismatch.
C31_FirstFailingCheck ==
    [][Exchanging
         => LET p == result'.event.body.params
                error == result'.call.error
                known == Code \in DOMAIN auth_codes
                used == auth_codes[Code].used
                expired == now > auth_codes[Code].expires_at
                wrong_client == auth_codes[Code].client_id # p.client_id
                wrong_redirect == /\ Truthy(p.redirect_uri)
                                  /\ auth_codes[Code].redirect_uri # p.redirect_uri
            IN  /\ ~known => error = "Invalid authorization code"
                /\ (known /\ used) => error = "Authorization code already used"
                /\ (known /\ ~used /\ expired)
                   => error = "Authorization code expired"
                /\ (known /\ ~used /\ ~expired /\ wrong_client)
                   => error = "Client ID mismatch"
                /\ (known /\ ~used /\ ~expired /\ ~wrong_client /\ wrong_redirect)
                   => error = "Redirect URI mismatch"]_vars

\* A code that is used and expired was presented and reported as used.
C31_Witness ==
    /\ result.call.op = "exchange"
    /\ Params.code \in DOMAIN auth_codes
    /\ result.at > auth_codes[Params.code].expires_at
    /\ result.call.error = "Authorization code already used"

\* This exchange fails one of the checks of exchange_code_for_token.
Rejected ==
    LET p == result'.event.body.params
    IN  \/ Code \notin DOMAIN auth_codes
        \/ auth_codes[Code].used
        \/ now > auth_codes[Code].expires_at
        \/ auth_codes[Code].client_id # p.client_id
        \/ Truthy(p.redirect_uri) /\ auth_codes[Code].redirect_uri # p.redirect_uri

\* C32: a failed exchange (unknown, used or expired code, wrong client,
\* wrong redirect_uri) leaves the three stores unchanged; after a failed
\* attempt with a wrong client_id or redirect_uri the code is still unused,
\* and an exchange with the correct inputs before expiry succeeds.
C32_FailedExchangeChangesNothing ==
    /\ [][(Exchanging /\ Rejected)
            => ~result'.call.ok /\ UNCHANGED stores /\ generated' = generated]_vars
    /\ [][(/\ Exchanging
           /\ Code \in DOMAIN auth_codes
           /\ ~auth_codes[Code].used
           /\ now <= auth_codes[Code].expires_at
           /\ auth_codes[Code].client_id = result'.event.body.params.client_id
           /\ result'.event.body.params.redirect_uri
                  \in {None, auth_codes[Code].redirect_uri})
            => result'.call.ok]_vars

\* An attempt with the wrong client_id on an unused, unexpired code failed
\* and the code is still unused, with no token minted.
C32_Witness ==
    /\ result.call.op = "exchange"
    /\ result.call.error = "Client ID mismatch"
    /\ ~auth_codes[Params.code].used
    /\ result.at <= auth_codes[Params.code].expires_at
    /\ access_tokens = EmptyDict
    /\ refresh_tokens = EmptyDict

\* C33: a successful refresh adds one access-token record and changes
\* nothing else: the codes, the refresh-token record (its expires_at
\* included) and every earlier access-token record are as before, so each
\* earlier access token validates exactly as it did; the refresh token stays
\* usable, and every refresh with it and its client succeeds until it
\* expires.
C33_RefreshAddsOnlyAccessToken ==
    /\ [][(Refreshing /\ result'.call.ok)
            => /\ auth_codes' = auth_codes
               /\ refresh_tokens' = refresh_tokens
               /\ AddsOne(access_tokens, access_tokens',
                          result'.response.token_response.access_token)
               /\ \A t \in DOMAIN access_tokens :
                      validate_token(t)' = validate_token(t)]_vars
    /\ [][(/\ Refreshing
           /\ Presented.refresh_token \in DOMAIN refresh_tokens
           /\ now <= refresh_tokens[Presented.refresh_token].expires_at
           /\ refresh_tokens[Presented.refresh_token].client_id
                  = Presented.client_id)
            => result'.call.ok]_vars
    /\ []((result.call.op = "refresh" /\ result.call.ok)
            => /\ Params.refresh_token \in DOMAIN refresh_tokens
               /\ refresh_tokens[Params.refresh_token].expires_at
                      = refresh_tokens[Params.refresh_token].created_at
                            + refresh_token_ttl)

\* The one refresh token of a grant was used a second time, at a later
\* instant than the grant, and the access tokens of the exchange and of the
\* first refresh are still in the store.
C33_Witness ==
    /\ result.call.op = "refresh"
    /\ result.call.ok
    /\ Cardinality(DOMAIN refresh_tokens) = 1
    /\ Cardinality(DOMAIN access_tokens) >= 3
    /\ result.at > refresh_tokens[Params.refresh_token].created_at

\* C34: no step removes a key from the authorization-code, access-token or
\* refresh-token store, whether its entry is used, expired or neither.
C34_NothingEvicted ==
    [][/\ DOMAIN auth_codes \subseteq DOMAIN auth_codes'
       /\ DOMAIN access_tokens \subseteq DOMAIN access_tokens'
       /\ DOMAIN refresh_tokens \subseteq DOMAIN refresh_tokens']_vars

\* A request is answered while the stores hold a used code and an access
\* token whose expiry has passed.
C34_Witness ==
    /\ result # Idle
    /\ \E c \in DOMAIN auth_codes : auth_codes[c].used
    /\ \E t \in DOMAIN access_tokens : now > access_tokens[t].expires_at
    /\ refresh_tokens # EmptyDict

\* C35: no step changes an existing access-token or refresh-token record
\* (client, scope, subject, created_at, expires_at), and an access token
\* that validate_token rejects because its expiry has passed is rejected at
\* every later time.
C35_TokenRecordsReadOnly ==
    [][/\ \A t \in DOMAIN access_tokens :
              /\ t \in DOMAIN access_tokens'
              /\ access_tokens'[t] = access_tokens[t]
              /\ now > access_tokens[t].expires_at => ~validate_token(t)'
       /\ \A t \in DOMAIN refresh_tokens :
              /\ t \in DOMAIN refresh_tokens'
              /\ refresh_tokens'[t] = refresh_tokens[t]
       /\ now' >= now]_vars

\* A POST /mcp presenting an access token of the store after its expiry was
\* answered 401 while a later access token of the same grant is in the store.
C35_Witness ==
    /\ BearerAnswered
    /\ Found[2] \in DOMAIN access_tokens
    /\ result.at > access_tokens[Found[2]].expires_at
    /\ result.response.statusCode = 401
    /\ Cardinality(DOMAIN access_tokens) >= 2

\* C36: a code issued by one process is rejected as an invalid
\* authorization code by the other, which mints nothing, and an access token
\* minted by one process, still valid there, is answered 401 by the other;
\* no code is redeemed twice, by whichever process.
C36_StoresAreProcessLocal ==
    /\ [][(Exchanging /\ Code \in DOMAIN peer.auth_codes)
            => /\ ~result'.call.ok
               /\ result'.call.error = "Invalid authorization code"
               /\ UNCHANGED stores
               /\ peer' = peer]_vars
    /\ []((/\ BearerAnswered
           /\ Found[2] \in DOMAIN peer.access_tokens
           /\ result.at <= peer.access_tokens[Found[2]].expires_at)
            => result.response.statusCode = 401)
    /\ []NoCodeRedeemedTwice

\* The second process, which issued no code, answered 401 to an access
\* token the first process minted and would accept.
C36_Witness ==
    /\ peer.serving = 2
    /\ BearerAnswered
    /\ Found[2] \in DOMAIN peer.access_tokens
    /\ result.at <= peer.access_tokens[Found[2]].expires_at
    /\ result.response.statusCode = 401
    /\ auth_codes = EmptyDict

\* The codes marked used.
UsedCodes == {c \in DOMAIN auth_codes : auth_codes[c].used}

\* This step is a successful exchange or a successful refresh.
Minting == (Exchanging \/ Refreshing) /\ result'.call.ok

\* C37: through the HTTP endpoints there are as many refresh-token records
\* as used codes, every access-token record carries the client id of a used
\* code, and the access-token records are counted by the successful
\* exchanges and refreshes: each adds one and no other step adds or removes
\* any.
C37_StoreCounts ==
    /\ [](Cardinality(DOMAIN refresh_tokens) = Cardinality(UsedCodes))
    /\ [](Cardinality(UsedCodes) = Len(redeemed))
    /\ [](\A t \in DOMAIN access_tokens :
             \E c \in UsedCodes :
                 auth_codes[c].client_id = access_tokens[t].client_id)
    /\ [](Cardinality(DOMAIN access_tokens) >= Len(redeemed))
    /\ [][Cardinality(DOMAIN access_tokens')
             = Cardinality(DOMAIN access_tokens) + IF Minting THEN 1 ELSE 0]_vars

\* One exchange and one refresh were made: two access-token records, one
\* refresh-token record, one used code.
C37_Witness ==
    /\ result.call.op = "refresh"
    /\ result.call.ok
    /\ Len(redeemed) = 1
    /\ Cardinality(DOMAIN access_tokens) = 2
    /\ Cardinality(DOMAIN refresh_tokens) = 1
    /\ Cardinality(UsedCodes) = 1

\* Every value _generate_token can return within the bounds.
Values == {Tok(k) : k \in 1..MaxTokens}

\* The entry under key in store exists and its expiry has passed.
Expired(store, key) == key \in DOMAIN store /\ now > store[key].expires_at

\* C38: as time advances every code, access token and refresh token in the
\* stores comes to have its expiry behind the clock, and stays so; from then
\* on no exchange of the code succeeds, used or not, validate_token rejects
\* the access token and no refresh with the refresh token succeeds.
C38_EveryEntryExpires ==
    /\ \A v \in Values :
           /\ (v \in DOMAIN auth_codes) ~> [](Expired(auth_codes, v))
           /\ (v \in DOMAIN access_tokens) ~> [](Expired(access_tokens, v))
           /\ (v \in DOMAIN refresh_tokens) ~> [](Expired(refresh_tokens, v))
    /\ [][(Exchanging /\ Expired(auth_codes, Code)) => ~result'.call.ok]_vars
    /\ [][(Refreshing /\ Expired(refresh_tokens, Presented.refresh_token))
            => ~result'.call.ok]_vars
    /\ [](\A t \in DOMAIN access_tokens :
             Expired(access_tokens, t) => ~validate_token(t))

\* A refresh token was presented after its expiry and refused, and the code
\* of its grant, used, is expired as well.
C38_Witness ==
    /\ result.call.op = "refresh"
    /\ Expired(refresh_tokens, Params.refresh_token)
    /\ result.call.error = "Refresh token expired"
    /\ \E c \in DOMAIN auth_codes : auth_codes[c].used /\ Expired(auth_codes, c)

\* The routes lambda_handler answers without the bearer check.
PublicRoute(event) ==
    \/ event.method = "GET" /\ event.path = "/health"
    \/ event.method = "GET" /\ event.path = "/oauth/authorize"
    \/ event.method = "GET" /\ event.path = "/oauth/callback"
    \/ event.method = "POST" /\ event.path = "/oauth/token"
    \/ event.method = "OPTIONS"

Gated(event) == event.method = "POST" /\ event.path = "/mcp"

\* The answer to event and the stores it leaves, computed in this state.
Outcome(event) ==
    LET out == lambda_handler(event)
    IN  <<out.response, out.auth_codes, out.access_tokens, out.refresh_tokens>>

\* C39: GET /health, GET /oauth/authorize, GET /oauth/callback, POST
\* /oauth/token and OPTIONS are never answered 401, and their response and
\* effect on the stores are those of the same request without headers;
\* POST /mcp without an Authorization header is answered 401; every other
\* method and path is answered 404.
C39_OnlyMcpGated ==
    [][(result = Idle /\ result' # Idle)
         => LET event == result'.event
            IN  /\ PublicRoute(event)
                   => /\ result'.response.statusCode \in {200, 302, 400}
                      /\ <<result'.response, auth_codes', access_tokens',
                            refresh_tokens'>>
                             = Outcome([event EXCEPT !.headers = NoHeaders])
                /\ (Gated(event) /\ event.headers = NoHeaders)
                   => result'.response.statusCode = 401
                /\ (~PublicRoute(event) /\ ~Gated(event))
                   => result'.response.statusCode = 404]_vars

\* A POST /oauth/token carrying an Authorization header that POST /mcp
\* would refuse exchanged a code.
C39_Witness ==
    /\ result.event.path = "/oauth/token"
    /\ result.event.method = "POST"
    /\ result.event.headers # NoHeaders
    /\ result.event.headers.authorization[2] = "garbage"
    /\ result.call.op = "exchange"
    /\ result.call.ok

====
